---- MODULE Spec2Model ----
(***************************************************************************)
(* Model of the hala-ai request pipeline.                                  *)
(*                                                                         *)
(*   Spec        PipelineOrchestrator (register_layer, on_layer_complete,  *)
(*               execute) running the five concrete layers                 *)
(*   SpecScope   SemanticValidationLayer.initialize_scope_embeddings and   *)
(*               invalidate_cache under interleaved asyncio tasks          *)
(*   SpecJourney the /journey/generate endpoint (generate_journey) over a   *)
(*               store of templates and knowledge references               *)
(*   SpecLayers  one layer's process, or one provider's generate, called   *)
(*               on its own, over its configurations and inputs            *)
(*   SpecRuns    several execute calls on one orchestrator, interleaved    *)
(*               layer by layer                                            *)
(*   SpecRefs    the routing decision of generate_journey and              *)
(*               _format_references_for_prompt, as functions of a search   *)
(*               result set, and the prompt built from them                *)
(*   SpecScopeFair  SpecScope with every wake-up and every computation     *)
(*               eventually taking place                                   *)
(*   SpecEmbedding  EmbeddingService's lazy model load under concurrent    *)
(*               callers and pool threads                                  *)
(*                                                                         *)
(* Text is abstracted to the facts the code tests about it (trimmed        *)
(* length, regex matches, detected language, similarities); distances and  *)
(* similarities are integers in hundredths.                                *)
(***************************************************************************)
EXTENDS Integers, Sequences, FiniteSets, TLC

(***************************************************************************)
(* Bounds                                                                  *)
(***************************************************************************)
MaxLayers == 2
NumTasks == 3
MaxComputes == 3
MaxTemplates == 1
MaxRefs == 2
MaxStories == 2
NumRuns == 2
MaxMatches == 2
MaxHits == 2

(***************************************************************************)
(* Program constants                                                       *)
(***************************************************************************)
MinInputLength == 10
MaxInputLength == 500
SemanticThreshold == 45
SecondaryThreshold == 50
TEMPLATE_HIGH_SIMILARITY_THRESHOLD == 85
KNOWLEDGE_RELEVANCE_THRESHOLD == 70

VARIABLES
  layers,            \* orchestrator._layers: the registered layers, by kind
  on_layer_complete, \* orchestrator._on_layer_complete (behaviour of the hook)
  on_pipeline_complete, \* orchestrator._on_pipeline_complete
  pc,                \* position of the execute call: idle / running / done
  sorted_layers,     \* execute's sorted_layers, as indices into layers
  idx,               \* loop position in sorted_layers
  context,           \* the run's PipelineContext
  layer_results,     \* execute's layer_results
  response,          \* the envelope execute returned
  raised,            \* an exception escaped execute
  invoked,           \* history: registrations whose process was invoked
  collab,            \* history: collaborator calls made by the run
  callsAfterFail,    \* history: collaborator calls made after a failed result
  faultIn,           \* history: the stage during which a collaborator raised
  noHook,            \* history: the same run on the same inputs with no
                     \* on_layer_complete callback registered
  cached_scope_embeddings, \* SemanticValidationLayer._cached_scope_embeddings
  embeddings_lock,   \* SemanticValidationLayer._embeddings_lock
  tasks,             \* the asyncio tasks calling initialize_scope_embeddings
  compute_count,     \* history: batch computations started so far
  valid_success,     \* history: a batch computation succeeded and
                     \* invalidate_cache was not called since
  repeated_computes, \* history: batch computations started while valid_success
  invalidated_before, \* history: batch computations started before the last
                     \* invalidate_cache (their number; 0 before any)
  search_results,    \* generate_journey's search_results
  detected_language, \* generate_journey's detected_language
  route,             \* generate_journey's best_template, template_similarity
  references,        \* the lines of the grounding text
  user_prompt,       \* the user message generate_journey gives the provider
  journey_pc,        \* position in generate_journey
  store,             \* the two ChromaDB collections
  validation,        \* generate_journey's validation_result
  journey_response,  \* what generate_journey returned or raised as HTTP error
  journey_fault,     \* history: a collaborator of the request failed
  stage,             \* a layer called on its own: configuration, input, result
  runs,              \* the execute calls in progress on one orchestrator
  contexts,          \* the PipelineContext objects of those calls
  _model,            \* EmbeddingService._model is set
  _initialized,      \* EmbeddingService._initialized
  model_loads,       \* history: SentenceTransformer constructions started
  callers            \* the asyncio tasks calling the embedding service

orchVars == <<layers, on_layer_complete, on_pipeline_complete, pc,
              sorted_layers, idx, context, layer_results, response, raised,
              invoked, collab, callsAfterFail, faultIn, noHook>>
cacheVars == <<cached_scope_embeddings, embeddings_lock>>
scopeVars == <<tasks, compute_count, valid_success, repeated_computes, invalidated_before>>
refsVars == <<search_results, detected_language, route, references,
              user_prompt, journey_pc>>
journeyVars == <<store, validation, journey_response, journey_fault>>
embeddingVars == <<_model, _initialized, model_loads, callers>>
outsideOrch == <<scopeVars, refsVars, journeyVars, stage, runs, contexts,
                 embeddingVars>>
outsideScope == <<orchVars, refsVars, journeyVars, stage, runs, contexts,
                 embeddingVars>>
outsideRefs == <<orchVars, cacheVars, scopeVars, journeyVars, stage, runs, contexts,
                 embeddingVars>>
outsideJourney == <<orchVars, scopeVars, stage, runs, contexts,
                 embeddingVars>>
outsideLayers == <<orchVars, cacheVars, scopeVars, refsVars, journeyVars,
                   runs, contexts, embeddingVars>>
outsideRuns == <<orchVars, embeddings_lock, scopeVars, refsVars, journeyVars,
                 stage, embeddingVars>>
outsideEmbedding == <<orchVars, cacheVars, scopeVars, refsVars, journeyVars,
                      stage, runs, contexts>>
vars == <<orchVars, cacheVars, scopeVars, refsVars, journeyVars, stage, runs,
          contexts, embeddingVars>>

(***************************************************************************)
(* base.py: statuses, layers, context                                      *)
(***************************************************************************)
PASSED == "passed"
REJECTED == "rejected"
ERROR == "error"

LayerKinds == {"sanitization", "semantic_validation", "safety_guardrails",
               "rag_retrieval", "llm_inference"}

layer_order(kind) ==
  CASE kind = "sanitization" -> 1
    [] kind = "semantic_validation" -> 2
    [] kind = "safety_guardrails" -> 3
    [] kind = "rag_retrieval" -> 4
    [] kind = "llm_inference" -> 5

Languages == {"id", "en"}

PipelineContext(language) ==
  [ language |-> language,
    processed_input |-> "raw",
    detected_language |-> "none",
    semantic_scores |-> << >>,
    detected_scope |-> "none",
    safety_flags |-> {},
    retrieved_verses |-> 0,
    retrieved_hadith |-> 0,
    retrieved_strategies |-> 0,
    retrieved_documents |-> 0,
    llm_response |-> "none",
    llm_provider_used |-> "none",
    layer_timings |-> {} ]

\* PipelineResult, with the fields the orchestrator reads
PipelineResult(status, name, code) ==
  [status |-> status, layer_name |-> name, error_code |-> code]

_create_success_result(name) == PipelineResult(PASSED, name, "none")
_create_rejection_result(name, code) == PipelineResult(REJECTED, name, code)
_create_error_result(name) == PipelineResult(ERROR, name, "INTERNAL_ERROR")

\* what a layer's process did: its result (or the exception it let escape),
\* the context as it left it, and the collaborator calls it made
Returned(result, ctx, calls) ==
  [raised |-> FALSE, result |-> result, ctx |-> ctx, calls |-> calls]
Raised(name, ctx, calls) ==
  [raised |-> TRUE, result |-> PipelineResult("none", name, "none"),
   ctx |-> ctx, calls |-> calls]

NoCalls == [embedding |-> 0, store |-> 0, llm |-> 0]
Calls(e, s, l) == [embedding |-> e, store |-> s, llm |-> l]
AddCalls(a, b) == [embedding |-> a.embedding + b.embedding,
                   store |-> a.store + b.store,
                   llm |-> a.llm + b.llm]
TotalCalls(c) == c.embedding + c.store + c.llm

(***************************************************************************)
(* layer1_sanitization.py: SanitizationLayer.process                       *)
(***************************************************************************)
\* a service for Indonesian only
OnlyIndonesian == {"id"}

SUPPORTED_LANGUAGES == {"id", "en"}
DetectedLanguages == {"id", "en", "fr", "none"}
InputLengths == {MinInputLength - 1, MinInputLength,
                 MaxInputLength, MaxInputLength + 1}

SanitizationInputs ==
  [len : InputLengths, lang : DetectedLanguages, gibberish : BOOLEAN,
   injection : BOOLEAN, profanity : BOOLEAN]

\* x or default, for an Optional[int] x (<< >> is None, <<n>> is n): None
\* and 0 are falsy
PyOr(x, default) == IF x = << >> \/ x[1] = 0 THEN default ELSE x[1]

\* SanitizationLayer.__init__ (lines 63-64) over the settings
SanitizationLayer(min_length, max_length, settings) ==
  [_min_length |-> PyOr(min_length, settings.min_input_length),
   _max_length |-> PyOr(max_length, settings.max_input_length)]

DefaultSettings ==
  [min_input_length |-> MinInputLength, max_input_length |-> MaxInputLength]

\* a length test that also rejects the configured minimum itself
TooShortOrMinimum(self, len) == len <= self._min_length

\* line 92
TooShort(self, len) == len < self._min_length

\* process of the layer self
SanitizationProcessOf(self, ctx, in) ==
  LET name == "sanitization"
      ctxLang == [ctx EXCEPT !.detected_language =
                    IF in.lang # "none" THEN in.lang ELSE ctx.language]
  IN  IF TooShort(self, in.len)
        THEN Returned(_create_rejection_result(name, "VALIDATION_ERROR"), ctx, NoCalls)
      ELSE IF in.len > self._max_length
        THEN Returned(_create_rejection_result(name, "VALIDATION_ERROR"), ctx, NoCalls)
      ELSE IF in.lang # "none" /\ in.lang \notin SUPPORTED_LANGUAGES
        THEN Returned(_create_rejection_result(name, "LANGUAGE_NOT_SUPPORTED"), ctx, NoCalls)
      ELSE IF in.lang = "none" /\ in.gibberish
        THEN Returned(_create_rejection_result(name, "VALIDATION_ERROR"), ctxLang, NoCalls)
      ELSE IF in.injection
        THEN Returned(_create_rejection_result(name, "INJECTION_DETECTED"), ctxLang, NoCalls)
      ELSE IF in.profanity
        THEN Returned(_create_rejection_result(name, "VALIDATION_ERROR"), ctxLang, NoCalls)
      ELSE Returned(_create_success_result(name),
                    [ctxLang EXCEPT !.processed_input = "clean",
                                    !.layer_timings = @ \cup {name}],
                    NoCalls)

\* a vote between the two word lists: the language with more matches
MajorityVote(indonesian_matches, english_matches) ==
  IF indonesian_matches > english_matches THEN "id"
  ELSE IF english_matches > indonesian_matches THEN "en"
  ELSE "none"

\* lines 296-305: the lexical step of _detect_language ("none": undecided)
LexicalStep(indonesian_matches, english_matches) ==
  IF indonesian_matches > 0 THEN "id"
  ELSE IF english_matches > 0 THEN "en"
  ELSE "none"

DetectAttempts == 5

\* _detect_language on a text: whether fewer than 3 letters or spaces
\* remain, the number of its words in each indicator list, and what each
\* call of langdetect's detect gives ("raise": it raises)
_detect_language(in) ==
  LET lexical == LexicalStep(in.indonesian_matches, in.english_matches)
      detection_results ==
        {k \in 1..DetectAttempts : in.detect[k] # "raise"}
      count(l) == Cardinality({k \in detection_results : in.detect[k] = l})
      majority == {in.detect[k] : k \in
                     {j \in detection_results : count(in.detect[j]) >= 3}}
  IN  IF in.short THEN "none"
      ELSE IF lexical # "none" THEN lexical
      ELSE IF detection_results = {} THEN "none"
      ELSE IF majority # {} THEN CHOOSE l \in majority : TRUE
      ELSE "none"

\* the checks of process, in the order of the code, each with the error
\* code of its rejection
SanitizationChecks ==
  <<"length", "language", "gibberish", "injection", "profanity">>

\* a gibberish check that consults the heuristic whatever the language
CheckFailsGibberishAlways(self, in, check) ==
  CASE check = "length" -> TooShort(self, in.len) \/ in.len > self._max_length
    [] check = "language" -> in.lang # "none" /\ in.lang \notin SUPPORTED_LANGUAGES
    [] check = "gibberish" -> in.gibberish
    [] check = "injection" -> in.injection
    [] check = "profanity" -> in.profanity

\* the condition of each rejection: lines 92 and 102, 113, 127, 138, 149
CheckFails(self, in, check) ==
  CASE check = "length" -> TooShort(self, in.len) \/ in.len > self._max_length
    [] check = "language" -> in.lang # "none" /\ in.lang \notin SUPPORTED_LANGUAGES
    [] check = "gibberish" -> in.lang = "none" /\ in.gibberish
    [] check = "injection" -> in.injection
    [] check = "profanity" -> in.profanity

\* lines 94, 104, 117, 129, 140, 151: error_code of each rejection
CheckErrorCode(check) ==
  CASE check = "language" -> "LANGUAGE_NOT_SUPPORTED"
    [] check = "injection" -> "INJECTION_DETECTED"
    [] OTHER -> "VALIDATION_ERROR"

\* status and error code when the checks are evaluated in the given order
\* and the first one that fails rejects
OutcomeInOrder(self, in, order) ==
  LET failing == {k \in 1..Len(order) : CheckFails(self, in, order[k])}
      first == CHOOSE k \in failing : \A j \in failing : k <= j
  IN  IF failing = {} THEN <<PASSED, "none">>
      ELSE <<REJECTED, CheckErrorCode(order[first])>>

\* the layer as deps.py:59 and journey.py:159 construct it
SanitizationProcess(ctx, in) ==
  SanitizationProcessOf(SanitizationLayer(<< >>, << >>, DefaultSettings), ctx, in)

(***************************************************************************)
(* layer2_semantic.py: SemanticValidationLayer.process, run to completion  *)
(* by one task (the interleaved version is SpecScope below)                *)
(***************************************************************************)
NumScopes == 6
scope_names == <<"worship", "mental_health", "productivity",
                 "marriage_family", "character_building", "spiritual_growth">>
SimValues == {0, 44, 45, 49, 50}

\* similarity lists tried by the pipeline runs: the first or the last scope
\* at v, the rest at w
SimilarityLists ==
  { [i \in 1..NumScopes |-> IF i = k THEN v ELSE w] :
      k \in {1, NumScopes}, v \in SimValues, w \in SimValues }

SemanticInputs ==
  [hasService : BOOLEAN, batchRaises : BOOLEAN, embedRaises : BOOLEAN,
   sims : SimilarityLists, keyword : BOOLEAN]

\* the loop of lines 218-225: best is <<max_similarity, best_scope_index>>,
\* indices counted from 0 as in the code
RECURSIVE BestScope(_, _, _)
BestScope(sims, i, best) ==
  IF i > Len(sims) THEN best
  ELSE BestScope(sims, i + 1,
                 IF sims[i] > best[1] THEN <<sims[i], i - 1>> ELSE best)

\* scope_names[best_scope_index]: Python indexes -1 from the end
ScopeNameAt(i) == IF i < 0 THEN scope_names[Len(scope_names) + 1 + i]
                  ELSE scope_names[i + 1]

\* the cache after initialize_scope_embeddings ran alone (0 is None)
ScopeCacheAfter(in, cache) ==
  IF ~in.hasService THEN cache
  ELSE IF cache # 0 THEN cache
  ELSE IF in.batchRaises THEN 0
  ELSE 1

\* the embedding service raised inside process (get_embeddings at line 192
\* or get_embedding at line 213)
SemanticFault(in, cache) ==
  in.hasService /\ ((cache = 0 /\ in.batchRaises) \/ in.embedRaises)

\* a comparison that also turns down a similarity equal to the threshold
AtOrBelow(similarity, threshold) == similarity <= threshold

\* lines 235 and 247: max_similarity < threshold
Below(similarity, threshold) == similarity < threshold

SemanticProcess(ctx, in, cache) ==
  LET name == "semantic_validation"
      initCalls == IF cache = 0 THEN 1 ELSE 0
      best == BestScope(in.sims, 1, <<0, -1>>)
      ctxScored == [ctx EXCEPT
                      !.semantic_scores = <<ScopeNameAt(best[2]), best[1]>>,
                      !.layer_timings = @ \cup {name}]
  IN  IF ~in.hasService
        THEN Returned(_create_error_result(name), ctx, NoCalls)
      ELSE IF cache = 0 /\ in.batchRaises
        THEN Raised(name, ctx, Calls(1, 0, 0))
      ELSE IF in.embedRaises
        THEN Raised(name, ctx, Calls(initCalls + 1, 0, 0))
      ELSE IF Below(best[1], SemanticThreshold)
        THEN Returned(_create_rejection_result(name, "OUT_OF_SCOPE"),
                      ctxScored, Calls(initCalls + 1, 0, 0))
      ELSE IF Below(best[1], SecondaryThreshold) /\ ~in.keyword
        THEN Returned(_create_rejection_result(name, "OUT_OF_SCOPE"),
                      ctxScored, Calls(initCalls + 1, 0, 0))
      ELSE Returned(_create_success_result(name),
                    [ctxScored EXCEPT !.detected_scope =
                       IF best[2] >= 0 THEN ScopeNameAt(best[2]) ELSE "general"],
                    Calls(initCalls + 1, 0, 0))

(***************************************************************************)
(* layer3_safety.py: SafetyGuardrailsLayer.process                         *)
(***************************************************************************)
SafetyInputs == [crisis : BOOLEAN, violence : BOOLEAN, haram : BOOLEAN]

\* a crisis test that gives way to the other two
CrisisMatchUnlessOther(in) == in.crisis /\ ~in.violence /\ ~in.haram

\* line 103: the crisis patterns are searched first
CrisisMatch(in) == in.crisis

SafetyProcess(ctx, in) ==
  LET name == "safety_guardrails"
      flagged(f) == [ctx EXCEPT !.safety_flags = {f}]
  IN  IF CrisisMatch(in)
        THEN Returned(_create_rejection_result(name, "SAFETY_VIOLATION"),
                      flagged("CRISIS_DETECTED"), NoCalls)
      ELSE IF in.violence
        THEN Returned(_create_rejection_result(name, "SAFETY_VIOLATION"),
                      flagged("VIOLENCE_DETECTED"), NoCalls)
      ELSE IF in.haram
        THEN Returned(_create_rejection_result(name, "SAFETY_VIOLATION"),
                      flagged("HARAM_TOPIC_DETECTED"), NoCalls)
      ELSE Returned(_create_success_result(name),
                    [ctx EXCEPT !.safety_flags = {},
                                !.layer_timings = @ \cup {name}],
                    NoCalls)

(***************************************************************************)
(* layer4_rag.py: RAGRetrievalLayer.process                                *)
(***************************************************************************)
\* searchRaises: which of the three store searches raises (0: none);
\* nv, nh, ns: the number of hits each search returns
RagInputs ==
  [hasStore : BOOLEAN, hasService : BOOLEAN, embedRaises : BOOLEAN,
   searchRaises : 0..3, nv : 0..1, nh : 0..1, ns : 0..1]

\* the embedding service (line 70) or the store (lines 74-94) raised
RagFault(in) ==
  in.hasStore /\ in.hasService /\ (in.embedRaises \/ in.searchRaises # 0)

RagProcess(ctx, in) ==
  LET name == "rag_retrieval"
      ctxV == [ctx EXCEPT !.retrieved_verses = in.nv]
      ctxH == [ctxV EXCEPT !.retrieved_hadith = in.nh]
      ctxS == [ctxH EXCEPT !.retrieved_strategies = in.ns,
                           !.retrieved_documents = in.nv + in.nh + in.ns,
                           !.layer_timings = @ \cup {name}]
  IN  IF ~in.hasStore
        THEN Returned(_create_error_result(name), ctx, NoCalls)
      ELSE IF ~in.hasService
        THEN Returned(_create_error_result(name), ctx, NoCalls)
      ELSE IF in.embedRaises
        THEN Returned(_create_error_result(name), ctx, Calls(1, 0, 0))
      ELSE IF in.searchRaises = 1
        THEN Returned(_create_error_result(name), ctx, Calls(1, 1, 0))
      ELSE IF in.searchRaises = 2
        THEN Returned(_create_error_result(name), ctxV, Calls(1, 2, 0))
      ELSE IF in.searchRaises = 3
        THEN Returned(_create_error_result(name), ctxH, Calls(1, 3, 0))
      ELSE IF ctxS.retrieved_documents = 0
        THEN Returned(_create_rejection_result(name, "RAG_FAILURE"),
                      ctxS, Calls(1, 3, 0))
      ELSE Returned(_create_success_result(name), ctxS, Calls(1, 3, 0))

(***************************************************************************)
(* layer5_inference.py: LLMInferenceLayer.process                          *)
(***************************************************************************)
LlmResponses == {"journey", "empty_journey"}
LlmInputs == [hasProvider : BOOLEAN, generateRaises : BOOLEAN,
              llm_response : LlmResponses]

\* the provider's generate (line 134) raised
LlmFault(in) == in.hasProvider /\ in.generateRaises

LlmProcess(ctx, in) ==
  LET name == "llm_inference"
  IN  IF ~in.hasProvider
        THEN Returned(_create_error_result(name), ctx, NoCalls)
      ELSE IF in.generateRaises
        THEN Returned(_create_error_result(name), ctx, Calls(0, 0, 1))
      ELSE Returned(_create_success_result(name),
                    [ctx EXCEPT !.llm_response = in.llm_response,
                                !.llm_provider_used = "gemini",
                                !.layer_timings = @ \cup {name}],
                    Calls(0, 0, 1))

(***************************************************************************)
(* api/v1/endpoints/journey.py: the routing decision of generate_journey   *)
(* (step 3) and _format_references_for_prompt (step 4), over the result    *)
(* set _hybrid_search hands them.  A hit is what the search methods of     *)
(* chromadb_service.py return: distance, metadata, document.               *)
(***************************************************************************)
\* dict.get(key, default)
MetadataGet(metadata, key, default) ==
  IF key \in DOMAIN metadata THEN metadata[key] ELSE default

\* the metadata add_journey_template stores with a template: the document
\* sync_service prepares has no "languages" entry, so the default is joined
TemplateMetadata ==
  [type |-> "journey_template", is_active |-> "True", languages |-> "id,en"]

TemplateDistances == {100 - TEMPLATE_HIGH_SIMILARITY_THRESHOLD - 1,
                      100 - TEMPLATE_HIGH_SIMILARITY_THRESHOLD,
                      100 - TEMPLATE_HIGH_SIMILARITY_THRESHOLD + 1}

\* a template hit; document is the full_document sync_service prepared, whose
\* "language" is the language the template is written in
TemplateHits ==
  { [distance |-> d, metadata |-> TemplateMetadata,
     document |-> [language |-> l]] :
      d \in TemplateDistances, l \in Languages }

RefDistances == {KNOWLEDGE_RELEVANCE_THRESHOLD,
                 KNOWLEDGE_RELEVANCE_THRESHOLD + 1}

KnowledgeHit(distance, category, title, content, content_ar) ==
  [distance |-> distance,
   metadata |-> [type |-> "knowledge_reference", category |-> category],
   document |-> [category |-> category, title |-> title,
                 content |-> content, content_ar |-> content_ar]]

\* hits of the top-K knowledge search: every category the formatter tells
\* apart and one it does not, with and without Arabic text, and a DOA whose
\* title quotes the words "Story/Wisdom"
KnowledgeHits ==
  { KnowledgeHit(d, c, "title", "content", ar) :
      d \in RefDistances, c \in {"VERSE", "HADITH"}, ar \in {"", "arabic"} }
  \cup
  { KnowledgeHit(d, c, "title", "content", "") :
      d \in RefDistances, c \in {"DOA", "STRATEGY", "STORY", "UNKNOWN"} }
  \cup
  { KnowledgeHit(KNOWLEDGE_RELEVANCE_THRESHOLD, "DOA",
                 "Story/Wisdom of Luqman", "content", "") }

\* hits of the story-only lookup (where category = STORY): titled, with
\* content only, with neither
StoryHits ==
  { KnowledgeHit(d, "STORY", tc[1], tc[2], "") :
      d \in RefDistances,
      tc \in {<<"title", "content">>, <<"", "content">>, <<"", "">>} }

SeqsUpTo(S, n) == UNION { [1..k -> S] : k \in 0..n }

SearchResultSets ==
  [templates : SeqsUpTo(TemplateHits, MaxTemplates),
   knowledge_references : SeqsUpTo(KnowledgeHits, MaxRefs),
   stories : SeqsUpTo(StoryHits, MaxStories)]

EmptyResults ==
  [templates |-> << >>, knowledge_references |-> << >>, stories |-> << >>]

\* lines 453-476; best_template is the index of the accepted template in
\* templates, 0 for None
NoRoute == [best_template |-> 0, template_similarity |-> 0]

DecideRouteOf(templates, language) ==
  IF templates = << >> THEN NoRoute
  ELSE LET best_template_result == templates[1]
           template_similarity == 100 - best_template_result.distance
           template_language ==
             MetadataGet(best_template_result.metadata, "language", "id")
       IN  IF template_similarity >= TEMPLATE_HIGH_SIMILARITY_THRESHOLD
                /\ template_language = language
             THEN [best_template |-> 1,
                   template_similarity |-> template_similarity]
             ELSE [best_template |-> 0,
                   template_similarity |-> template_similarity]

\* line 556: meta.template_used
template_used(r) == r.best_template # 0

\* no prompt built yet
NoPrompt == [user_input |-> "none", language |-> "none",
             references |-> << >>, template |-> 0]

\* lines 341-391: the parts of the request that appear in the text of the
\* prompt; template is the template (its position in the search results)
\* that appears in it, 0 for none
_build_user_prompt(user_input, refs, template, language) ==
  [user_input |-> user_input, language |-> language,
   references |-> IF refs # << >> THEN refs ELSE <<"(No specific references)">>,
   template |-> 0]

\* title or content
TitleOrContent(doc) == IF doc.title # "" THEN doc.title ELSE doc.content

\* a line of the grounding text: its prefix, the text after it, and the hit
\* it was made from (the list and the position in it)
Line(kind, text, list, i) ==
  [kind |-> kind, text |-> text, list |-> list, hit |-> i]

\* lines 299-325 for the i-th knowledge reference
FormatKnowledgeHit(ref, i) ==
  LET doc == ref.document
      head(kind) == <<Line(kind, TitleOrContent(doc), "knowledge_references", i)>>
      arabic == IF doc.content_ar # ""
                  THEN <<Line("Arabic", doc.content_ar, "knowledge_references", i)>>
                  ELSE << >>
  IN  IF ref.distance > KNOWLEDGE_RELEVANCE_THRESHOLD THEN << >>
      ELSE CASE doc.category = "VERSE" -> head("Verse") \o arabic
             [] doc.category = "HADITH" -> head("Hadith") \o arabic
             [] doc.category = "DOA" -> head("Doa")
             [] doc.category = "STRATEGY" -> head("Strategy")
             [] doc.category = "STORY" -> head("Story/Wisdom")
             [] OTHER -> << >>

RECURSIVE FormatKnowledge(_, _)
FormatKnowledge(refs, i) ==
  IF i > Len(refs) THEN << >>
  ELSE FormatKnowledgeHit(refs[i], i) \o FormatKnowledge(refs, i + 1)

\* "Story/Wisdom" in r: the line's prefix or its text has the words
MentionsStoryWisdom(line) ==
  line.kind = "Story/Wisdom" \/ line.text = "Story/Wisdom of Luqman"

\* lines 330-336: the first story with a title or content, 0 if none
RECURSIVE FirstUsableStory(_, _)
FirstUsableStory(stories, i) ==
  IF i > Len(stories) THEN 0
  ELSE IF TitleOrContent(stories[i].document) # "" THEN i
  ELSE FirstUsableStory(stories, i + 1)

\* the lines joined by line 338; no line stands for the placeholder text
_format_references_for_prompt(results) ==
  LET lines == FormatKnowledge(results.knowledge_references, 1)
      story_added == \E k \in 1..Len(lines) : MentionsStoryWisdom(lines[k])
      s == FirstUsableStory(results.stories, 1)
  IN  IF ~story_added /\ s # 0
        THEN Append(lines, Line("Story/Wisdom",
                                TitleOrContent(results.stories[s].document),
                                "stories", s))
        ELSE lines

(***************************************************************************)
(* services/chromadb_service.py: the collections and their searches        *)
(***************************************************************************)
\* templates as add_journey_template stores them, active or not
StoredTemplates ==
  { [t EXCEPT !.metadata.is_active = a] :
      t \in TemplateHits, a \in {"True", "False"} }

\* the knowledge references tried in the store: a verse, a doa and a story,
\* each within and beyond the relevance threshold
StoredKnowledge ==
  { h \in KnowledgeHits : /\ h.document.category \in {"VERSE", "DOA", "STORY"}
                          /\ h.document.content_ar = ""
                          /\ h.document.title = "title" }

IsAscending(hits) ==
  \A i, j \in 1..Len(hits) : i < j => hits[i].distance <= hits[j].distance

\* a collection is the list of its entries by ascending distance to the
\* request's prompt, the order in which collection.query returns them
StoreContents ==
  { st \in [journey_templates : SeqsUpTo(StoredTemplates, MaxTemplates),
            knowledge_references : SeqsUpTo(StoredKnowledge, MaxRefs)] :
      IsAscending(st.journey_templates) /\ IsAscending(st.knowledge_references) }

EmptyStore == [journey_templates |-> << >>, knowledge_references |-> << >>]

NoFilter == [key |-> "none", value |-> "none"]

\* collection.query(query_texts, n_results, where)
Query(collection, n_results, where) ==
  LET Matches(hit) == where = NoFilter
                        \/ MetadataGet(hit.metadata, where.key, "") = where.value
      found == SelectSeq(collection, Matches)
  IN  SubSeq(found, 1, IF Len(found) < n_results THEN Len(found) ELSE n_results)

\* lines 243-289
search_journey_templates(st, limit, active_only) ==
  Query(st.journey_templates, limit,
        IF active_only THEN [key |-> "is_active", value |-> "True"]
        ELSE NoFilter)

\* lines 195-241; category "none" is None
search_knowledge_references(st, limit, category) ==
  Query(st.knowledge_references, limit,
        IF category # "none" THEN [key |-> "category", value |-> category]
        ELSE NoFilter)

\* the parameters the two search methods declare (lines 195-200, 243-248)
SearchTemplatesParams == {"query", "limit", "active_only"}
SearchKnowledgeParams == {"query", "limit", "category"}

\* a call with keyword arguments the method does not declare is a TypeError
AcceptsKeywords(params, keywords) == keywords \subseteq params

(***************************************************************************)
(* journey.py: _hybrid_search, _get_status_code, the HTTP outcomes         *)
(***************************************************************************)
\* lines 244-287
_hybrid_search(st, language) ==
  IF ~AcceptsKeywords(SearchTemplatesParams,
                      {"query", "limit", "active_only", "language"})
    THEN [raised |-> TRUE, results |-> EmptyResults]
  ELSE IF ~AcceptsKeywords(SearchKnowledgeParams,
                           {"query", "limit", "language"})
    THEN [raised |-> TRUE, results |-> EmptyResults]
  ELSE IF ~AcceptsKeywords(SearchKnowledgeParams,
                           {"query", "limit", "category", "language"})
    THEN [raised |-> TRUE, results |-> EmptyResults]
  ELSE [raised |-> FALSE,
        results |->
          [templates |-> search_journey_templates(st, 3, TRUE),
           knowledge_references |-> search_knowledge_references(st, 10, "none"),
           stories |-> search_knowledge_references(st, 3, "STORY")]]

\* lines 691-703
_get_status_code(error_code) ==
  CASE error_code \in {"INJECTION_DETECTED", "VALIDATION_ERROR", "OUT_OF_SCOPE"}
         -> 400
    [] error_code = "SAFETY_VIOLATION" -> 422
    [] OTHER -> 500

NoJourneyResponse ==
  [status_code |-> 0, status |-> "none", code |-> "none", data |-> "none",
   template_used |-> FALSE, template_similarity |-> 0,
   documents_retrieved |-> 0, detected_scope |-> "none",
   semantic_scores |-> << >>, layer_timings |-> {}]

\* HTTPException(status_code, detail = {status: error, code: ...})
HttpError(status_code, code) ==
  [NoJourneyResponse EXCEPT !.status_code = status_code, !.status = "error",
                            !.code = code]

\* the payloads gemini.generate returns in json mode: a journey with tasks,
\* one without, the provider's own fallback for unparsable text
GeminiPayloads == {"journey", "empty_journey", "parse_fallback"}
GeminiOutcomes == GeminiPayloads \cup {"raise"}

\* lines 507-526: a journey without tasks gets the default task
JourneyData(payload) ==
  IF payload = "empty_journey" THEN "default_task" ELSE payload

NoValidation ==
  [is_valid |-> FALSE, failed_at_layer |-> "none", error_code |-> "none",
   context |-> PipelineContext("id")]

RefsIdle ==
  /\ search_results = EmptyResults
  /\ detected_language = "id"
  /\ route = NoRoute
  /\ references = << >>
  /\ user_prompt = NoPrompt
  /\ journey_pc = "idle"

NoStage == [kind |-> "none", done |-> FALSE]

JourneyIdle ==
  /\ stage = NoStage
  /\ store = EmptyStore
  /\ validation = NoValidation
  /\ journey_response = NoJourneyResponse
  /\ journey_fault = FALSE

(***************************************************************************)
(* orchestrator.py: PipelineOrchestrator                                   *)
(***************************************************************************)
\* sorted(self._layers, key=lambda l: l.layer_order): a stable sort, here
\* on the indices of the registrations.  Position of x in s: after every
\* element whose order is not greater.
InsertAfterEqual(s, x, ls) ==
  LET keep == {i \in 1..Len(s) : layer_order(ls[s[i]]) <= layer_order(ls[x])}
      n == Cardinality(keep)
  IN  SubSeq(s, 1, n) \o <<x>> \o SubSeq(s, n + 1, Len(s))

RECURSIVE SortFrom(_, _, _)
SortFrom(ls, i, acc) ==
  IF i > Len(ls) THEN acc
  ELSE SortFrom(ls, i + 1, InsertAfterEqual(acc, i, ls))

\* the layers in registration order, as a missing sort would leave them
UnsortedLayers(ls) == [i \in 1..Len(ls) |-> i]

SortedLayers(ls) == SortFrom(ls, 1, << >>)

\* the behaviours of a registered callback: absent, reads only, writes the
\* context it is handed, raises
HookBehaviours == {"none", "observe", "mutate", "raise"}
PipelineHookBehaviours == {"none", "observe", "raise"}

HookEffect(hook, ctx) ==
  IF hook = "mutate" THEN [ctx EXCEPT !.llm_response = "hook_payload"]
  ELSE ctx

NoResponse ==
  [status |-> "none", code |-> "none", failed_at_layer |-> "none",
   layer_timings |-> {}, data |-> "none", detected_scope |-> "none",
   semantic_scores |-> << >>, documents_retrieved |-> 0,
   llm_provider |-> "none"]

_build_error_response(result, ctx) ==
  [NoResponse EXCEPT
     !.status = "error",
     !.code = IF result.error_code # "none" THEN result.error_code
              ELSE "INTERNAL_ERROR",
     !.failed_at_layer = result.layer_name,
     !.layer_timings = ctx.layer_timings]

_build_success_response(ctx) ==
  [NoResponse EXCEPT
     !.status = "success",
     !.data = ctx.llm_response,
     !.detected_scope = ctx.detected_scope,
     !.semantic_scores = ctx.semantic_scores,
     !.documents_retrieved = ctx.retrieved_documents,
     !.llm_provider = ctx.llm_provider_used,
     !.layer_timings = ctx.layer_timings]

\* a short-circuit that stops on ERROR alone
ShortCircuitOnErrorOnly(status) == status = ERROR

\* line 101: result.status in (REJECTED, ERROR)
ShortCircuit(status) == status \in {REJECTED, ERROR}

Failed(results) == \E i \in 1..Len(results) : results[i].status # PASSED

Tasks == 1..NumTasks

\* a task: its position, whether its layer has an embedding service, its
\* layer's _scope_embeddings (0 is None, otherwise the number of the batch
\* computation that produced them) and the computation it is running;
\* history: whether it found the flag set and waited, and the value of
\* invalidated_before when its request started
NewTask(hasService) ==
  [pc |-> "start", hasService |-> hasService, scope_embeddings |-> 0,
   computing |-> 0, waited |-> FALSE, epoch |-> 0]

ScopeIdle ==
  /\ tasks = [t \in Tasks |-> NewTask(TRUE)]
  /\ compute_count = 0
  /\ valid_success = FALSE
  /\ repeated_computes = 0
  /\ invalidated_before = 0

OrchIdle ==
  /\ layers = << >>
  /\ on_layer_complete = "none"
  /\ on_pipeline_complete = "none"
  /\ pc = "idle"
  /\ sorted_layers = << >>
  /\ idx = 1
  /\ context = PipelineContext("id")
  /\ layer_results = << >>
  /\ response = NoResponse
  /\ raised = FALSE
  /\ invoked = << >>
  /\ collab = NoCalls
  /\ callsAfterFail = 0
  /\ faultIn = "none"
  /\ noHook = [ctx |-> PipelineContext("id"), response |-> NoResponse,
               raised |-> FALSE, done |-> FALSE]

NoHookRun(ctx) ==
  [ctx |-> ctx, response |-> NoResponse, raised |-> FALSE, done |-> FALSE]

Runs == 1..NumRuns

\* an execute call not made yet; alone is the same call made with nothing
\* else running, overlapped whether another call ran a layer during it
NewRun ==
  [pc |-> "idle", sorted_layers |-> << >>, idx |-> 1, layer_results |-> << >>,
   response |-> NoResponse, raised |-> FALSE,
   alone |-> NoHookRun(PipelineContext("id")), overlapped |-> FALSE]

RunsIdle ==
  /\ runs = [r \in Runs |-> NewRun]
  /\ contexts = [r \in Runs |-> PipelineContext("id")]

\* embedding_service.py:23-24: no model, no task calling the service
EmbeddingIdle ==
  /\ _model = FALSE
  /\ _initialized = FALSE
  /\ model_loads = 0
  /\ callers = [t \in Tasks |-> [pc |-> "idle", entry |-> "initialize"]]

Init ==
  /\ OrchIdle
  /\ cached_scope_embeddings = 0
  /\ embeddings_lock = FALSE
  /\ ScopeIdle
  /\ RefsIdle
  /\ JourneyIdle
  /\ RunsIdle
  /\ EmbeddingIdle

runVars == <<pc, sorted_layers, idx, context, layer_results, response,
             raised, invoked, collab, callsAfterFail, faultIn, noHook>>

\* execute iterates over its own sorted copy of _layers (line 87), so a
\* registration made while a run is suspended changes later runs only:
\* registrations and callback settings are taken between runs
register_layer(kind) ==
  /\ pc = "idle"
  /\ Len(layers) < MaxLayers
  /\ layers' = Append(layers, kind)
  /\ UNCHANGED <<on_layer_complete, on_pipeline_complete, runVars, cacheVars,
                 outsideOrch>>

register_layers(kinds) ==
  /\ pc = "idle"
  /\ Len(layers) + Len(kinds) <= MaxLayers
  /\ layers' = layers \o kinds
  /\ UNCHANGED <<on_layer_complete, on_pipeline_complete, runVars, cacheVars,
                 outsideOrch>>

set_on_layer_complete(hook) ==
  /\ pc = "idle"
  /\ on_layer_complete' = hook
  /\ UNCHANGED <<layers, on_pipeline_complete, runVars, cacheVars,
                 outsideOrch>>

set_on_pipeline_complete(hook) ==
  /\ pc = "idle"
  /\ on_pipeline_complete' = hook
  /\ UNCHANGED <<layers, on_layer_complete, runVars, cacheVars,
                 outsideOrch>>

\* lines 76-90: a new context, the sorted layers, an empty result list
execute_start(language) ==
  /\ pc = "idle"
  /\ pc' = "running"
  /\ context' = PipelineContext(language)
  /\ sorted_layers' = SortedLayers(layers)
  /\ idx' = 1
  /\ layer_results' = << >>
  /\ response' = NoResponse
  /\ raised' = FALSE
  /\ invoked' = << >>
  /\ collab' = NoCalls
  /\ callsAfterFail' = 0
  /\ faultIn' = "none"
  /\ noHook' = NoHookRun(PipelineContext(language))
  /\ UNCHANGED <<layers, on_layer_complete, on_pipeline_complete, cacheVars,
                 outsideOrch>>

\* the run without a callback, one iteration further: r0 is what the layer
\* did on that run's context
NoHookStep(r0) ==
  IF noHook.done THEN noHook
  ELSE IF r0.raised
    THEN [ctx |-> r0.ctx, response |-> NoResponse, raised |-> TRUE,
          done |-> TRUE]
  ELSE IF ShortCircuit(r0.result.status)
    THEN [ctx |-> r0.ctx,
          response |-> _build_error_response(r0.result, r0.ctx),
          raised |-> FALSE, done |-> TRUE]
  ELSE [ctx |-> r0.ctx, response |-> NoResponse, raised |-> FALSE,
        done |-> FALSE]

NoHookFinish ==
  IF noHook.done THEN noHook
  ELSE IF on_pipeline_complete = "raise"
    THEN [noHook EXCEPT !.raised = TRUE, !.done = TRUE]
  ELSE [noHook EXCEPT !.response = _build_success_response(noHook.ctx),
                      !.done = TRUE]

\* lines 93-102: one iteration of the loop, given what layer.process did (r),
\* what it did in the run without a callback (r0), and whether one of its
\* collaborators raised (fault)
LayerCompleted(r, r0, fault) ==
  /\ invoked' = Append(invoked, sorted_layers[idx])
  /\ faultIn' = IF fault /\ faultIn = "none" THEN r.result.layer_name
                ELSE faultIn
  /\ noHook' = NoHookStep(r0)
  /\ collab' = AddCalls(collab, r.calls)
  /\ callsAfterFail' = callsAfterFail +
       (IF Failed(layer_results) THEN TotalCalls(r.calls) ELSE 0)
  /\ IF r.raised
       THEN /\ pc' = "done"
            /\ raised' = TRUE
            /\ context' = r.ctx
            /\ UNCHANGED <<idx, layer_results, response>>
     ELSE IF on_layer_complete = "raise"
       THEN /\ pc' = "done"
            /\ raised' = TRUE
            /\ context' = r.ctx
            /\ layer_results' = Append(layer_results, r.result)
            /\ UNCHANGED <<idx, response>>
     ELSE /\ context' = HookEffect(on_layer_complete, r.ctx)
          /\ layer_results' = Append(layer_results, r.result)
          /\ UNCHANGED raised
          /\ IF ShortCircuit(r.result.status)
               THEN /\ pc' = "done"
                    /\ response' = _build_error_response(r.result, context')
                    /\ UNCHANGED idx
               ELSE /\ idx' = idx + 1
                    /\ UNCHANGED <<pc, response>>
  /\ UNCHANGED <<layers, on_layer_complete, on_pipeline_complete,
                 sorted_layers>>

AtLayer(kind) ==
  /\ pc = "running"
  /\ idx <= Len(sorted_layers)
  /\ layers[sorted_layers[idx]] = kind

StepSanitization ==
  /\ AtLayer("sanitization")
  /\ \E in \in SanitizationInputs :
       LayerCompleted(SanitizationProcess(context, in),
                      SanitizationProcess(noHook.ctx, in), FALSE)
  /\ UNCHANGED <<cacheVars, outsideOrch>>

StepSemantic ==
  /\ AtLayer("semantic_validation")
  /\ ~embeddings_lock
  /\ \E in \in SemanticInputs :
       /\ LayerCompleted(SemanticProcess(context, in, cached_scope_embeddings),
                         SemanticProcess(noHook.ctx, in, cached_scope_embeddings),
                         SemanticFault(in, cached_scope_embeddings))
       /\ cached_scope_embeddings' = ScopeCacheAfter(in, cached_scope_embeddings)
  /\ UNCHANGED <<embeddings_lock, outsideOrch>>

StepSafety ==
  /\ AtLayer("safety_guardrails")
  /\ \E in \in SafetyInputs :
       LayerCompleted(SafetyProcess(context, in),
                      SafetyProcess(noHook.ctx, in), FALSE)
  /\ UNCHANGED <<cacheVars, outsideOrch>>

StepRag ==
  /\ AtLayer("rag_retrieval")
  /\ \E in \in RagInputs :
       LayerCompleted(RagProcess(context, in), RagProcess(noHook.ctx, in),
                      RagFault(in))
  /\ UNCHANGED <<cacheVars, outsideOrch>>

StepLlm ==
  /\ AtLayer("llm_inference")
  /\ \E in \in LlmInputs :
       LayerCompleted(LlmProcess(context, in), LlmProcess(noHook.ctx, in),
                      LlmFault(in))
  /\ UNCHANGED <<cacheVars, outsideOrch>>

\* lines 104-113: every layer passed
execute_finish ==
  /\ pc = "running"
  /\ idx > Len(sorted_layers)
  /\ pc' = "done"
  /\ IF on_pipeline_complete = "raise"
       THEN raised' = TRUE /\ UNCHANGED response
       ELSE response' = _build_success_response(context) /\ UNCHANGED raised
  /\ noHook' = NoHookFinish
  /\ UNCHANGED <<layers, on_layer_complete, on_pipeline_complete,
                 sorted_layers, idx, context, layer_results, invoked, collab,
                 callsAfterFail, faultIn, cacheVars, outsideOrch>>

\* the caller has the envelope (or the exception); the context is dropped
execute_return ==
  /\ pc = "done"
  /\ pc' = "idle"
  /\ sorted_layers' = << >>
  /\ idx' = 1
  /\ context' = PipelineContext("id")
  /\ layer_results' = << >>
  /\ response' = NoResponse
  /\ raised' = FALSE
  /\ invoked' = << >>
  /\ collab' = NoCalls
  /\ callsAfterFail' = 0
  /\ faultIn' = "none"
  /\ noHook' = NoHookRun(PipelineContext("id"))
  /\ UNCHANGED <<layers, on_layer_complete, on_pipeline_complete, cacheVars,
                 outsideOrch>>

Next ==
  \/ \E kind \in LayerKinds : register_layer(kind)
  \/ \E k1, k2 \in LayerKinds : register_layers(<<k1, k2>>)
  \/ \E hook \in HookBehaviours : set_on_layer_complete(hook)
  \/ \E hook \in PipelineHookBehaviours : set_on_pipeline_complete(hook)
  \/ \E language \in Languages : execute_start(language)
  \/ StepSanitization
  \/ StepSemantic
  \/ StepSafety
  \/ StepRag
  \/ StepLlm
  \/ execute_finish
  \/ execute_return

Spec == Init /\ [][Next]_vars

(***************************************************************************)
(* layer2_semantic.py: initialize_scope_embeddings and invalidate_cache    *)
(* under interleaved asyncio tasks.  A task runs without interruption      *)
(* between two awaits: asyncio.sleep (line 180) and get_embeddings         *)
(* (line 192) are the suspension points.                                   *)
(***************************************************************************)
\* an entry that never waits for the flag
EntryIgnoringLock(cache, lock, hasService) ==
  IF cache # 0 THEN "use_cache"
  ELSE IF ~hasService THEN "raise"
  ELSE "compute"

\* lines 172-189 up to the first await: what a task entering the method
\* (or leaving the polling loop, where lock is FALSE) does next
Entry(cache, lock, hasService) ==
  IF cache # 0 THEN "use_cache"
  ELSE IF lock THEN "wait"
  ELSE IF ~hasService THEN "raise"
  ELSE "compute"

\* the task takes branch b
Enter(t, b) ==
  CASE b = "use_cache" ->
         /\ tasks' = [tasks EXCEPT ![t].pc = "returned",
                                   ![t].scope_embeddings = cached_scope_embeddings]
         /\ UNCHANGED <<cacheVars, compute_count, valid_success,
                        repeated_computes, invalidated_before>>
    [] b = "wait" ->
         /\ tasks' = [tasks EXCEPT ![t].pc = "polling", ![t].waited = TRUE]
         /\ UNCHANGED <<cacheVars, compute_count, valid_success,
                        repeated_computes, invalidated_before>>
    [] b = "raise" ->
         /\ tasks' = [tasks EXCEPT ![t].pc = "raised"]
         /\ UNCHANGED <<cacheVars, compute_count, valid_success,
                        repeated_computes, invalidated_before>>
    [] b = "compute" ->
         /\ compute_count < MaxComputes
         /\ embeddings_lock' = TRUE
         /\ compute_count' = compute_count + 1
         /\ repeated_computes' = repeated_computes +
                                   (IF valid_success THEN 1 ELSE 0)
         /\ tasks' = [tasks EXCEPT ![t].pc = "computing",
                                   ![t].computing = compute_count + 1]
         /\ UNCHANGED <<cached_scope_embeddings, valid_success,
                        invalidated_before>>

\* lines 172-189: a task calls initialize_scope_embeddings
CallInitialize(t) ==
  /\ tasks[t].pc = "start"
  /\ Enter(t, Entry(cached_scope_embeddings, embeddings_lock,
                    tasks[t].hasService))
  /\ UNCHANGED outsideScope

\* lines 179-183: a polling task wakes from asyncio.sleep
Poll(t) ==
  /\ tasks[t].pc = "polling"
  /\ IF embeddings_lock
       THEN UNCHANGED <<tasks, cacheVars, compute_count, valid_success,
                        repeated_computes, invalidated_before>>
       ELSE Enter(t, Entry(cached_scope_embeddings, FALSE,
                           tasks[t].hasService))
  /\ UNCHANGED outsideScope

\* a flag cleared only after a computation that succeeded
LockKeptOnFailure(ok) == ~ok

\* lines 197-198: finally, _embeddings_lock = False
LockAfterCompute(ok) == FALSE

\* lines 192-198: get_embeddings returns or raises; finally clears the flag
ComputeEnds(t, ok) ==
  /\ tasks[t].pc = "computing"
  /\ embeddings_lock' = LockAfterCompute(ok)
  /\ IF ok
       THEN /\ cached_scope_embeddings' = tasks[t].computing
            /\ valid_success' = TRUE
            /\ tasks' = [tasks EXCEPT ![t].pc = "returned",
                                      ![t].scope_embeddings = tasks[t].computing,
                                      ![t].computing = 0]
       ELSE /\ tasks' = [tasks EXCEPT ![t].pc = "raised", ![t].computing = 0]
            /\ UNCHANGED <<cached_scope_embeddings, valid_success>>
  /\ UNCHANGED <<compute_count, repeated_computes, invalidated_before,
                 outsideScope>>

\* lines 143-146
invalidate_cache ==
  /\ cached_scope_embeddings' = 0
  /\ valid_success' = FALSE
  /\ invalidated_before' = compute_count
  /\ tasks' = [t \in Tasks |->
       IF tasks[t].pc = "start" THEN [tasks[t] EXCEPT !.epoch = compute_count]
       ELSE tasks[t]]
  /\ UNCHANGED <<embeddings_lock, compute_count, repeated_computes,
                 outsideScope>>

\* the task's request is over; the next request on this task uses a layer
\* with or without an embedding service
NextRequest(t, hasService) ==
  /\ tasks[t].pc \in {"returned", "raised"}
  /\ tasks' = [tasks EXCEPT ![t] =
       [NewTask(hasService) EXCEPT !.epoch = invalidated_before]]
  /\ UNCHANGED <<cacheVars, compute_count, valid_success, repeated_computes,
                 invalidated_before, outsideScope>>

InitScope ==
  /\ OrchIdle
  /\ cached_scope_embeddings = 0
  /\ embeddings_lock = FALSE
  /\ ScopeIdle
  /\ RefsIdle
  /\ JourneyIdle
  /\ RunsIdle
  /\ EmbeddingIdle

NextScope ==
  \/ \E t \in Tasks : CallInitialize(t)
  \/ \E t \in Tasks : Poll(t)
  \/ \E t \in Tasks, ok \in BOOLEAN : ComputeEnds(t, ok)
  \/ invalidate_cache
  \/ \E t \in Tasks, hasService \in BOOLEAN : NextRequest(t, hasService)

SpecScope == InitScope /\ [][NextScope]_vars

\* C7: starting from an empty cache, two batch computations of the scope
\* embeddings are never in progress together, and once one has succeeded no
\* task starts another until invalidate_cache is called.
ScopeEmbeddingsComputedOnce ==
  /\ Cardinality({t \in Tasks : tasks[t].pc = "computing"}) <= 1
  /\ repeated_computes = 0

\* the same tasks where get_embeddings fails and invalidate_cache is called
\* only while fewer than MaxComputes computations have started, so that a
\* task that has to compute always can; every get_embeddings call ends and
\* every task waking from asyncio.sleep gets to run
NextScopeFair ==
  \/ \E t \in Tasks : CallInitialize(t)
  \/ \E t \in Tasks : Poll(t)
  \/ \E t \in Tasks, ok \in BOOLEAN :
       (ok \/ compute_count < MaxComputes) /\ ComputeEnds(t, ok)
  \/ compute_count < MaxComputes /\ invalidate_cache
  \/ \E t \in Tasks, hasService \in BOOLEAN : NextRequest(t, hasService)

SpecScopeFair ==
  /\ InitScope
  /\ [][NextScopeFair]_vars
  /\ \A t \in Tasks : WF_vars(Poll(t))
  /\ \A t \in Tasks :
       WF_vars(\E ok \in BOOLEAN :
                 (ok \/ compute_count < MaxComputes) /\ ComputeEnds(t, ok))

WaiterNeverComputes ==
  \A t \in Tasks : tasks[t].waited => tasks[t].pc # "computing"

\* C23: a request that starts after invalidate_cache returned does not get
\* scope embeddings of a computation that started before that invalidation.
NoStaleEmbeddingsAfterInvalidate ==
  \A t \in Tasks :
    (tasks[t].pc = "returned" /\ tasks[t].scope_embeddings # 0)
      => tasks[t].scope_embeddings > tasks[t].epoch

\* a task is polling while another computes, and an earlier computation
\* has already succeeded and been invalidated
ScopeContentionWitness ==
  /\ \E t, u \in Tasks : tasks[t].pc = "computing" /\ tasks[u].pc = "polling"
  /\ compute_count >= 2

(***************************************************************************)
(* journey.py: steps 3 and 4 of generate_journey applied to a result set   *)
(***************************************************************************)
\* lines 453-476
DecideRoute ==
  /\ journey_pc = "input"
  /\ route' = DecideRouteOf(search_results.templates, detected_language)
  /\ journey_pc' = "routed"
  /\ UNCHANGED <<search_results, detected_language, references, user_prompt,
                 outsideRefs>>

\* line 479
FormatReferences ==
  /\ journey_pc = "routed"
  /\ references' = _format_references_for_prompt(search_results)
  /\ journey_pc' = "formatted"
  /\ UNCHANGED <<search_results, detected_language, route, user_prompt,
                 outsideRefs>>

\* lines 481-487
BuildPrompt ==
  /\ journey_pc = "formatted"
  /\ user_prompt' = _build_user_prompt("prompt", references,
                                        route.best_template, detected_language)
  /\ journey_pc' = "prompted"
  /\ UNCHANGED <<search_results, detected_language, route, references,
                 outsideRefs>>

InitRefs ==
  /\ OrchIdle
  /\ cached_scope_embeddings = 0
  /\ embeddings_lock = FALSE
  /\ ScopeIdle
  /\ search_results \in SearchResultSets
  /\ detected_language \in Languages
  /\ route = NoRoute
  /\ references = << >>
  /\ user_prompt = NoPrompt
  /\ journey_pc = "input"
  /\ JourneyIdle
  /\ RunsIdle
  /\ EmbeddingIdle

NextRefs ==
  \/ DecideRoute
  \/ FormatReferences
  \/ BuildPrompt

SpecRefs == InitRefs /\ [][NextRefs]_vars

(***************************************************************************)
(* journey.py: generate_journey                                            *)
(***************************************************************************)
\* line 420: the request enters _validate_input_full (lines 151-156)
generate_journey_start(language) ==
  /\ journey_pc = "idle"
  /\ journey_pc' = "sanitization"
  /\ validation' = [NoValidation EXCEPT !.context = PipelineContext(language)]
  /\ UNCHANGED <<search_results, detected_language, route, references,
                 user_prompt, store,
                 journey_response, journey_fault, cacheVars, outsideJourney>>

\* lines 422-432: the HTTP error of a validation that failed in result r
ValidationFailed(r) ==
  /\ validation' = [validation EXCEPT !.failed_at_layer = r.result.layer_name,
                                      !.error_code = r.result.error_code,
                                      !.context = r.ctx]
  /\ journey_response' = HttpError(_get_status_code(r.result.error_code),
                                   r.result.error_code)
  /\ journey_pc' = "done"

\* lines 566-579: an exception other than HTTPException
InternalError ==
  /\ journey_response' = HttpError(500, "INTERNAL_ERROR")
  /\ journey_pc' = "done"

\* lines 159-172
ValidateSanitization ==
  /\ journey_pc = "sanitization"
  /\ \E in \in SanitizationInputs :
       LET r == SanitizationProcess(validation.context, in)
       IN  IF r.result.status # PASSED
             THEN ValidationFailed(r)
             ELSE /\ validation' = [validation EXCEPT !.context = r.ctx]
                  /\ journey_pc' = "semantic_validation"
                  /\ UNCHANGED journey_response
  /\ UNCHANGED <<search_results, detected_language, route, references,
                 user_prompt, store,
                 journey_fault, cacheVars, outsideJourney>>

\* lines 175-195; initializeRaises: EmbeddingService.initialize raises
ValidateSemantic ==
  /\ journey_pc = "semantic_validation"
  /\ ~embeddings_lock
  /\ \E initializeRaises \in BOOLEAN :
     \E in \in {i \in SemanticInputs : i.hasService} :
       LET r == SemanticProcess(validation.context, in, cached_scope_embeddings)
       IN  IF initializeRaises
             THEN /\ InternalError
                  /\ journey_fault' = TRUE
                  /\ UNCHANGED <<validation, cached_scope_embeddings>>
           ELSE /\ cached_scope_embeddings' =
                     ScopeCacheAfter(in, cached_scope_embeddings)
                /\ IF r.raised
                     THEN /\ InternalError
                          /\ journey_fault' = TRUE
                          /\ UNCHANGED validation
                   ELSE IF r.result.status # PASSED
                     THEN ValidationFailed(r) /\ UNCHANGED journey_fault
                   ELSE /\ validation' = [validation EXCEPT !.context = r.ctx]
                        /\ journey_pc' = "safety_guardrails"
                        /\ UNCHANGED <<journey_response, journey_fault>>
  /\ UNCHANGED <<search_results, detected_language, route, references,
                 user_prompt, store,
                 embeddings_lock, outsideJourney>>

\* lines 198-221, 435-437
ValidateSafety ==
  /\ journey_pc = "safety_guardrails"
  /\ \E in \in SafetyInputs :
       LET r == SafetyProcess(validation.context, in)
       IN  IF r.result.status # PASSED
             THEN ValidationFailed(r) /\ UNCHANGED detected_language
             ELSE /\ validation' = [validation EXCEPT !.is_valid = TRUE,
                                                      !.context = r.ctx]
                  /\ detected_language' = r.ctx.detected_language
                  /\ journey_pc' = "searching"
                  /\ UNCHANGED journey_response
  /\ UNCHANGED <<search_results, route, references, user_prompt, store,
                 journey_fault,
                 cacheVars, outsideJourney>>

\* lines 442-562: connect, _hybrid_search, the routing decision, the
\* grounding text, the generation call and the envelope
SearchAndGenerate ==
  /\ journey_pc = "searching"
  /\ \E connectRaises \in BOOLEAN, gemini \in GeminiOutcomes :
       LET found == _hybrid_search(store, detected_language)
           decided == DecideRouteOf(found.results.templates, detected_language)
       IN  IF connectRaises
             THEN /\ InternalError
                  /\ journey_fault' = TRUE
                  /\ UNCHANGED <<search_results, route, references,
                                 user_prompt>>
           ELSE IF found.raised
             THEN /\ InternalError
                  /\ UNCHANGED <<search_results, route, references,
                                 user_prompt, journey_fault>>
           ELSE /\ search_results' = found.results
                /\ route' = decided
                /\ references' = _format_references_for_prompt(found.results)
                /\ user_prompt' = _build_user_prompt(
                                    "prompt",
                                    _format_references_for_prompt(found.results),
                                    decided.best_template, detected_language)
                /\ journey_pc' = "done"
                /\ IF gemini = "raise"
                     THEN /\ journey_response' = HttpError(500, "LLM_FAILURE")
                          /\ journey_fault' = TRUE
                     ELSE /\ journey_response' =
                               [status_code |-> 200,
                                status |-> "success",
                                code |-> "none",
                                data |-> JourneyData(gemini),
                                template_used |-> template_used(decided),
                                template_similarity |->
                                  IF template_used(decided)
                                    THEN decided.template_similarity ELSE 0,
                                documents_retrieved |->
                                  Len(found.results.knowledge_references),
                                detected_scope |->
                                  validation.context.detected_scope,
                                semantic_scores |->
                                  validation.context.semantic_scores,
                                layer_timings |->
                                  validation.context.layer_timings]
                          /\ UNCHANGED journey_fault
  /\ UNCHANGED <<detected_language, store, validation, cacheVars,
                 outsideJourney>>

\* the response is with the client; the request's locals are dropped
generate_journey_return ==
  /\ journey_pc = "done"
  /\ journey_pc' = "idle"
  /\ search_results' = EmptyResults
  /\ detected_language' = "id"
  /\ route' = NoRoute
  /\ references' = << >>
  /\ user_prompt' = NoPrompt
  /\ validation' = NoValidation
  /\ journey_response' = NoJourneyResponse
  /\ journey_fault' = FALSE
  /\ UNCHANGED <<store, cacheVars, outsideJourney>>

InitJourney ==
  /\ OrchIdle
  /\ cached_scope_embeddings = 0
  /\ embeddings_lock = FALSE
  /\ ScopeIdle
  /\ RefsIdle
  /\ stage = NoStage
  /\ RunsIdle
  /\ EmbeddingIdle
  /\ store \in StoreContents
  /\ validation = NoValidation
  /\ journey_response = NoJourneyResponse
  /\ journey_fault = FALSE

NextJourney ==
  \/ \E language \in Languages : generate_journey_start(language)
  \/ ValidateSanitization
  \/ ValidateSemantic
  \/ ValidateSafety
  \/ SearchAndGenerate
  \/ generate_journey_return

SpecJourney == InitJourney /\ [][NextJourney]_vars

(***************************************************************************)
(* orchestrator.py: several execute calls on one orchestrator, suspended   *)
(* at the await of a layer's process and resumed in any order              *)
(***************************************************************************)
\* a context that every call would write to
SharedContextKey(r) == 1

\* lines 79-84: the context is an object the call creates for itself
ContextKey(r) == r

\* what the layers of the interleaved calls are given: an input of accepted
\* length in any language, with or without an injection; a similarity of
\* 0.44 or 0.50 for the first scope, with the embedding service raising or
\* not; any safety match; no, one or two documents, or a failing search;
\* any answer of the provider
LayerInputsOf(kind) ==
  CASE kind = "sanitization" ->
         {in \in SanitizationInputs :
            in.len = MinInputLength /\ ~in.gibberish /\ ~in.profanity}
    [] kind = "semantic_validation" ->
         {in \in SemanticInputs :
            /\ in.hasService /\ in.keyword
            /\ in.sims[1] \in {44, 50} /\ in.sims[NumScopes] = 0}
    [] kind = "safety_guardrails" -> SafetyInputs
    [] kind = "rag_retrieval" ->
         {in \in RagInputs :
            /\ in.hasStore /\ in.hasService /\ ~in.embedRaises
            /\ in.searchRaises \in {0, 2} /\ in.ns = 0}
    [] kind = "llm_inference" -> {in \in LlmInputs : in.hasProvider}

\* line 94: layer.process(context)
LayerProcessOf(kind, ctx, in, cache) ==
  CASE kind = "sanitization" -> SanitizationProcess(ctx, in)
    [] kind = "semantic_validation" -> SemanticProcess(ctx, in, cache)
    [] kind = "safety_guardrails" -> SafetyProcess(ctx, in)
    [] kind = "rag_retrieval" -> RagProcess(ctx, in)
    [] kind = "llm_inference" -> LlmProcess(ctx, in)

\* lines 76-90
execute_call(r, language) ==
  /\ runs[r].pc = "idle"
  /\ layers # << >>
  /\ contexts' = [contexts EXCEPT ![ContextKey(r)] = PipelineContext(language)]
  /\ runs' = [runs EXCEPT ![r] =
       [NewRun EXCEPT !.pc = "running",
                      !.sorted_layers = SortedLayers(layers),
                      !.alone = NoHookRun(PipelineContext(language))]]
  /\ UNCHANGED <<cached_scope_embeddings, outsideRuns>>

\* lines 93-102: one iteration of the loop of call r
call_layer(r) ==
  /\ runs[r].pc = "running"
  /\ runs[r].idx <= Len(runs[r].sorted_layers)
  /\ ~embeddings_lock
  /\ LET run == runs[r]
         kind == layers[run.sorted_layers[run.idx]]
     IN  \E in \in LayerInputsOf(kind) :
           LET res == LayerProcessOf(kind, contexts[ContextKey(r)], in,
                                     cached_scope_embeddings)
               res0 == LayerProcessOf(kind, run.alone.ctx, in,
                                      cached_scope_embeddings)
               alone ==
                 IF res0.raised
                   THEN [ctx |-> res0.ctx, response |-> NoResponse,
                         raised |-> TRUE, done |-> TRUE]
                 ELSE IF ShortCircuit(res0.result.status)
                   THEN [ctx |-> res0.ctx,
                         response |-> _build_error_response(res0.result,
                                                            res0.ctx),
                         raised |-> FALSE, done |-> TRUE]
                 ELSE [ctx |-> res0.ctx, response |-> NoResponse,
                       raised |-> FALSE, done |-> FALSE]
               after ==
                 IF res.raised
                   THEN [run EXCEPT !.pc = "done", !.raised = TRUE,
                                    !.alone = alone]
                 ELSE IF ShortCircuit(res.result.status)
                   THEN [run EXCEPT
                           !.pc = "done",
                           !.layer_results = Append(@, res.result),
                           !.response = _build_error_response(res.result,
                                                              res.ctx),
                           !.alone = alone]
                 ELSE [run EXCEPT !.idx = @ + 1,
                                  !.layer_results = Append(@, res.result),
                                  !.alone = alone]
           IN  /\ contexts' = [contexts EXCEPT ![ContextKey(r)] = res.ctx]
               /\ runs' = [q \in Runs |->
                    IF q = r THEN after
                    ELSE IF runs[q].pc = "running"
                      THEN [runs[q] EXCEPT !.overlapped = TRUE]
                    ELSE runs[q]]
               /\ cached_scope_embeddings' =
                    IF kind = "semantic_validation"
                      THEN ScopeCacheAfter(in, cached_scope_embeddings)
                      ELSE cached_scope_embeddings
  /\ UNCHANGED outsideRuns

\* lines 104-113, no callback set
call_finish(r) ==
  /\ runs[r].pc = "running"
  /\ runs[r].idx > Len(runs[r].sorted_layers)
  /\ runs' = [runs EXCEPT ![r] =
       [runs[r] EXCEPT
          !.pc = "done",
          !.response = _build_success_response(contexts[ContextKey(r)]),
          !.alone = [runs[r].alone EXCEPT
                       !.response = _build_success_response(runs[r].alone.ctx),
                       !.done = TRUE]]]
  /\ UNCHANGED <<contexts, cached_scope_embeddings, outsideRuns>>

\* the caller has the envelope or the exception; the context is dropped
call_return(r) ==
  /\ runs[r].pc = "done"
  /\ runs' = [runs EXCEPT ![r] = NewRun]
  /\ contexts' = [contexts EXCEPT ![ContextKey(r)] = PipelineContext("id")]
  /\ UNCHANGED <<cached_scope_embeddings, outsideRuns>>

InitRuns ==
  /\ OrchIdle
  /\ cached_scope_embeddings = 0
  /\ embeddings_lock = FALSE
  /\ ScopeIdle
  /\ RefsIdle
  /\ JourneyIdle
  /\ RunsIdle
  /\ EmbeddingIdle

NextRuns ==
  \/ \E kind \in LayerKinds : register_layer(kind)
  \/ \E r \in Runs, language \in Languages : execute_call(r, language)
  \/ \E r \in Runs : call_layer(r)
  \/ \E r \in Runs : call_finish(r)
  \/ \E r \in Runs : call_return(r)

SpecRuns == InitRuns /\ [][NextRuns]_vars

\* C18: whatever other execute calls run before, after or in between its
\* layers, a call's context is at every step the context the same call has
\* when made alone with the same input, the same collaborator responses and
\* the same scope-embedding cache, and it ends with the same envelope or
\* exception.
RunsAreIndependent ==
  \A r \in Runs :
    /\ runs[r].pc # "idle" => contexts[ContextKey(r)] = runs[r].alone.ctx
    /\ runs[r].pc = "done" =>
         /\ runs[r].alone.done
         /\ runs[r].raised = runs[r].alone.raised
         /\ runs[r].response = runs[r].alone.response

\* a call returned the success envelope although the other call ran layers
\* in between and is still running on a context of other content
InterleavedRunsWitness ==
  \E r, q \in Runs :
    /\ r # q
    /\ runs[r].pc = "done"
    /\ runs[r].overlapped
    /\ runs[r].response.status = "success"
    /\ runs[q].pc = "running"
    /\ runs[q].overlapped
    /\ runs[q].idx > 1
    /\ contexts[ContextKey(q)] # contexts[ContextKey(r)]

(***************************************************************************)
(* providers: generate(response_format = "json") from the text the model   *)
(* answered with                                                           *)
(***************************************************************************)
\* the answer text: inside a markdown fence or not, with text around the
\* fence or the object or not, and what stands where the object should: a
\* JSON object, one with a trailing comma, one cut off, or no braces at all
LlmTexts ==
  [fenced : BOOLEAN, prose : BOOLEAN,
   body : {"object", "trailing_comma", "truncated", "garbage"}]

\* json.loads: the parsed journey, or JSONDecodeError
JsonLoads(text) ==
  LET ok == ~text.fenced /\ ~text.prose /\ text.body = "object"
  IN  [raised |-> ~ok, payload |-> IF ok THEN "journey" ELSE "none"]

\* gemini.py lines 52-88
_clean_and_parse_json(text) ==
  LET bare(body) == [fenced |-> FALSE, prose |-> FALSE, body |-> body]
      \* the group of the regular expression, the text from the first
      \* brace to the last
      braces == text.body # "garbage"
      \* line 80-81: trailing commas removed
      fixed == IF text.body = "trailing_comma" THEN "object" ELSE text.body
  IN  IF ~JsonLoads(text).raised THEN JsonLoads(text)
      ELSE IF text.fenced /\ braces /\ ~JsonLoads(bare(text.body)).raised
        THEN JsonLoads(bare(text.body))
      ELSE IF braces /\ ~JsonLoads(bare(text.body)).raised
        THEN JsonLoads(bare(text.body))
      ELSE IF braces THEN JsonLoads(bare(fixed))
      ELSE [raised |-> TRUE, payload |-> "none"]

\* gemini.py lines 127-139; _get_fallback_response (lines 157-183)
GeminiGenerate(text) ==
  IF ~JsonLoads(text).raised THEN JsonLoads(text)
  ELSE IF ~_clean_and_parse_json(text).raised THEN _clean_and_parse_json(text)
  ELSE [raised |-> FALSE, payload |-> "parse_fallback"]

\* providers/base.py lines 71-85: the inside of the fence if there is one,
\* the whole text otherwise
_parse_json_response(text) ==
  IF text.fenced
    THEN JsonLoads([fenced |-> FALSE, prose |-> FALSE, body |-> text.body])
    ELSE JsonLoads(text)

\* openai.py lines 76-80
OpenAIGenerate(text) ==
  IF ~JsonLoads(text).raised THEN JsonLoads(text)
  ELSE _parse_json_response(text)

\* ollama.py lines 74-78
OllamaGenerate(text) ==
  IF ~JsonLoads(text).raised THEN JsonLoads(text)
  ELSE _parse_json_response(text)

(***************************************************************************)
(* One layer constructed and its process called once on a fresh context,   *)
(* one provider's generate called once                                     *)
(***************************************************************************)
\* SanitizationLayer(min_length, max_length) called on an input: the
\* settings of core/config.py or a minimum of 0, trimmed lengths around the
\* bounds the layer can have
SanitizationStages ==
  [kind : {"sanitization"},
   min_length : {<< >>, <<2>>}, max_length : {<< >>, <<3>>},
   settings : {DefaultSettings,
               [min_input_length |-> 0, max_input_length |-> MaxInputLength]},
   language : {"id"},
   in : [len : InputLengths \cup 0..4, lang : DetectedLanguages,
         gibberish : BOOLEAN, injection : BOOLEAN, profanity : BOOLEAN],
   result : {NoStage}, done : {FALSE}]

RunSanitization ==
  /\ stage.kind = "sanitization"
  /\ ~stage.done
  /\ stage' = [stage EXCEPT
       !.result = SanitizationProcessOf(
                    SanitizationLayer(stage.min_length, stage.max_length,
                                      stage.settings),
                    PipelineContext(stage.language), stage.in),
       !.done = TRUE]
  /\ UNCHANGED outsideLayers

\* SafetyGuardrailsLayer() called on a text, for a request in one of the
\* languages or in another one
SafetyStages ==
  [kind : {"safety"}, language : Languages \cup {"fr"}, in : SafetyInputs,
   result : {NoStage}, hotline : {"none"}, done : {FALSE}]

\* lines 96-150; hotline is the hotline the messages and the suggested
\* action of the result name (lines 108-113: the resources of the request's
\* language, those of "en" for any other language)
RunSafety ==
  /\ stage.kind = "safety"
  /\ ~stage.done
  /\ LET resources == IF stage.language \in {"id", "en"} THEN stage.language
                      ELSE "en"
         hotline == [l \in {"id", "en"} |-> "119 ext 8"]
     IN  stage' = [stage EXCEPT
           !.result = SafetyProcess(PipelineContext(stage.language), stage.in),
           !.hotline = IF CrisisMatch(stage.in) THEN hotline[resources]
                       ELSE "none",
           !.done = TRUE]
  /\ UNCHANGED outsideLayers

\* SemanticValidationLayer.process on a text, with a working embedding
\* service, the scope embeddings cached or not; also on texts whose cosine
\* similarity to every scope is negative
SemanticStages ==
  [kind : {"semantic"}, language : Languages, cache : {0, 1},
   in : {i \in SemanticInputs :
           i.hasService /\ ~i.batchRaises /\ ~i.embedRaises}
        \cup
        {[hasService |-> TRUE, batchRaises |-> FALSE, embedRaises |-> FALSE,
          sims |-> [i \in 1..NumScopes |-> IF i = k THEN -1 ELSE -5],
          keyword |-> kw] : k \in 1..NumScopes, kw \in BOOLEAN},
   result : {NoStage}, done : {FALSE}]

RunSemantic ==
  /\ stage.kind = "semantic"
  /\ ~stage.done
  /\ stage' = [stage EXCEPT
       !.result = SemanticProcess(PipelineContext(stage.language), stage.in,
                                  stage.cache),
       !.done = TRUE]
  /\ UNCHANGED outsideLayers

\* _detect_language called on a text
DetectStages ==
  [kind : {"detect"},
   in : [short : BOOLEAN, indonesian_matches : 0..MaxMatches,
         english_matches : 0..MaxMatches,
         detect : [1..DetectAttempts -> {"en", "fr", "raise"}]],
   result : {NoStage}, done : {FALSE}]

RunDetect ==
  /\ stage.kind = "detect"
  /\ ~stage.done
  /\ stage' = [stage EXCEPT !.result = _detect_language(stage.in),
                            !.done = TRUE]
  /\ UNCHANGED outsideLayers

\* chroma_store.py:121-169, ChromaVectorStore.search: no hit for a collection
\* the store does not have, otherwise one document for each id of the query
\* results, in their order, with its distance
ChromaSearch(collections, collection_name, results) ==
  IF collection_name \notin collections THEN << >>
  ELSE [i \in 1..Len(results) |->
          [id |-> results[i].id, distance |-> results[i].distance]]

\* RAGRetrievalLayer.process with a store and an embedding service that do
\* not raise: the store has the three collections or lacks "hadith", and
\* collection.query gives up to MaxHits results for each, in any order
RagStages ==
  [kind : {"rag"},
   collections : {{"quran_verses", "hadith", "hala_strategies"},
                  {"quran_verses", "hala_strategies"}},
   results : [{"quran_verses", "hadith", "hala_strategies"} ->
                SeqsUpTo([id : {"doc"}, distance : {1, 2}], MaxHits)],
   retrieved : {NoStage}, result : {NoStage}, done : {FALSE}]

\* layer4_rag.py:72-98: the three searches; retrieved holds the lists the
\* context's retrieved_verses, retrieved_hadith and retrieved_strategies
\* are set to
RunRag ==
  /\ stage.kind = "rag"
  /\ ~stage.done
  /\ LET hits(c) == ChromaSearch(stage.collections, c, stage.results[c])
     IN  stage' = [stage EXCEPT
           !.retrieved = [verses |-> hits("quran_verses"),
                          hadith |-> hits("hadith"),
                          strategies |-> hits("hala_strategies")],
           !.result = RagProcess(PipelineContext("id"),
                        [hasStore |-> TRUE, hasService |-> TRUE,
                         embedRaises |-> FALSE, searchRaises |-> 0,
                         nv |-> Len(hits("quran_verses")),
                         nh |-> Len(hits("hadith")),
                         ns |-> Len(hits("hala_strategies"))]),
           !.done = TRUE]
  /\ UNCHANGED outsideLayers

\* generate of one of the three providers on an answer text
GenerateStages ==
  [kind : {"generate"}, provider : {"gemini", "openai", "ollama"},
   text : LlmTexts, result : {NoStage}, done : {FALSE}]

RunGenerate ==
  /\ stage.kind = "generate"
  /\ ~stage.done
  /\ stage' = [stage EXCEPT
       !.result = CASE stage.provider = "gemini" -> GeminiGenerate(stage.text)
                    [] stage.provider = "openai" -> OpenAIGenerate(stage.text)
                    [] stage.provider = "ollama" -> OllamaGenerate(stage.text),
       !.done = TRUE]
  /\ UNCHANGED outsideLayers

InitLayers ==
  /\ OrchIdle
  /\ cached_scope_embeddings = 0
  /\ embeddings_lock = FALSE
  /\ ScopeIdle
  /\ RefsIdle
  /\ store = EmptyStore
  /\ validation = NoValidation
  /\ journey_response = NoJourneyResponse
  /\ journey_fault = FALSE
  /\ RunsIdle
  /\ EmbeddingIdle
  /\ \/ stage \in SanitizationStages
     \/ stage \in GenerateStages
     \/ stage \in SafetyStages
     \/ stage \in SemanticStages
     \/ stage \in DetectStages
     \/ stage \in RagStages

NextLayers ==
  \/ RunSanitization
  \/ RunGenerate
  \/ RunSafety
  \/ RunSemantic
  \/ RunDetect
  \/ RunRag

SpecLayers == InitLayers /\ [][NextLayers]_vars

(***************************************************************************)
(* embedding_service.py: tasks of one event loop calling the service; the  *)
(* jobs given to run_in_executor run on the threads of the default pool,   *)
(* at the same time as the event loop and as each other                    *)
(***************************************************************************)
\* the methods a task enters the service by (deps.py:29-30 and
\* journey.py:175-176 enter by initialize)
EmbeddingEntries == {"initialize", "get_embedding", "get_embeddings"}

\* where the task goes when initialize has returned: back to its caller, or
\* on to the encode job of lines 71-75 and 92-96
AfterInitialize(entry) == IF entry = "initialize" THEN "done" ELSE "encoding"

\* lines 42-48, 67-68 and 88-89: the task runs up to its first await
CallService(t) ==
  /\ callers[t].pc = "start"
  /\ callers' = [callers EXCEPT ![t].pc =
       IF _initialized THEN AfterInitialize(callers[t].entry)
       ELSE IF ~_model THEN "in_executor"
       ELSE AfterInitialize(callers[t].entry)]
  /\ UNCHANGED <<_model, _initialized, model_loads, outsideEmbedding>>

\* line 53: the pool thread tests _model, and starts constructing the
\* SentenceTransformer (lines 54-55) when it is None
_load_model(t) ==
  /\ callers[t].pc = "in_executor"
  /\ IF ~_model
       THEN /\ callers' = [callers EXCEPT ![t].pc = "constructing"]
            /\ model_loads' = model_loads + 1
       ELSE /\ callers' = [callers EXCEPT ![t].pc = "loaded"]
            /\ UNCHANGED model_loads
  /\ UNCHANGED <<_model, _initialized, outsideEmbedding>>

\* line 55: the constructed model is assigned and the job ends
ModelConstructed(t) ==
  /\ callers[t].pc = "constructing"
  /\ _model' = TRUE
  /\ callers' = [callers EXCEPT ![t].pc = "loaded"]
  /\ UNCHANGED <<_initialized, model_loads, outsideEmbedding>>

\* line 49: the task resumes after run_in_executor
InitializeResumes(t) ==
  /\ callers[t].pc = "loaded"
  /\ _initialized' = TRUE
  /\ callers' = [callers EXCEPT ![t].pc = AfterInitialize(callers[t].entry)]
  /\ UNCHANGED <<_model, model_loads, outsideEmbedding>>

\* lines 71-76 and 92-97: the encode job ran and the task resumed
Encoded(t) ==
  /\ callers[t].pc = "encoding"
  /\ _model
  /\ callers' = [callers EXCEPT ![t].pc = "done"]
  /\ UNCHANGED <<_model, _initialized, model_loads, outsideEmbedding>>

\* a later call by the same task
NextCall(t, entry) ==
  /\ callers[t].pc = "done"
  /\ callers' = [callers EXCEPT ![t] = [pc |-> "start", entry |-> entry]]
  /\ UNCHANGED <<_model, _initialized, model_loads, outsideEmbedding>>

InitEmbedding ==
  /\ OrchIdle
  /\ cached_scope_embeddings = 0
  /\ embeddings_lock = FALSE
  /\ ScopeIdle
  /\ RefsIdle
  /\ JourneyIdle
  /\ runs = [r \in Runs |-> NewRun]
  /\ contexts = [r \in Runs |-> PipelineContext("id")]
  /\ _model = FALSE
  /\ _initialized = FALSE
  /\ model_loads = 0
  /\ callers \in [Tasks -> [pc : {"start"}, entry : EmbeddingEntries]]

NextEmbedding ==
  \/ \E t \in Tasks : CallService(t)
  \/ \E t \in Tasks : _load_model(t)
  \/ \E t \in Tasks : ModelConstructed(t)
  \/ \E t \in Tasks : InitializeResumes(t)
  \/ \E t \in Tasks : Encoded(t)
  \/ \E t \in Tasks, entry \in EmbeddingEntries : NextCall(t, entry)

SpecEmbedding == InitEmbedding /\ [][NextEmbedding]_vars

\* C30: under any interleaving of concurrent first callers of initialize,
\* get_embedding and get_embeddings, the embedding model is loaded at most
\* once.
ModelLoadedAtMostOnce == model_loads <= 1

CheckOrders ==
  {o \in [1..Len(SanitizationChecks) -> 1..Len(SanitizationChecks)] :
     \A i, j \in DOMAIN o : o[i] = o[j] => i = j}

\* the original statement of C25: for every input the status and the error
\* code of the stage are the same whichever order the checks are evaluated
\* in.
SanitizationOrderIndependent ==
  (stage.kind = "sanitization" /\ stage.done) =>
    LET self == SanitizationLayer(stage.min_length, stage.max_length,
                                  stage.settings)
        result == stage.result.result
    IN  \A o \in CheckOrders :
          OutcomeInOrder(self, stage.in, [k \in DOMAIN o |-> SanitizationChecks[o[k]]])
            = <<result.status,
                IF result.status = PASSED THEN "none" ELSE result.error_code>>

\* C25: for every input the status of the stage (Passed or Rejected) is the
\* same whichever order the checks are evaluated in, and so is the error
\* code of a rejection when all the rules the input violates have the same
\* error code; when they have different error codes the stage rejects with
\* the code of the first violated check in the order length, language,
\* gibberish, injection, profanity.
SanitizationStatusOrderIndependent ==
  (stage.kind = "sanitization" /\ stage.done) =>
    LET self == SanitizationLayer(stage.min_length, stage.max_length,
                                  stage.settings)
        result == stage.result.result
        code == IF result.status = PASSED THEN "none" ELSE result.error_code
        codes == {CheckErrorCode(SanitizationChecks[k]) :
                    k \in {j \in DOMAIN SanitizationChecks :
                             CheckFails(self, stage.in, SanitizationChecks[j])}}
    IN  /\ ~stage.result.raised
        /\ <<result.status, code>>
             = OutcomeInOrder(self, stage.in, SanitizationChecks)
        /\ \A o \in CheckOrders :
             LET outcome == OutcomeInOrder(self, stage.in,
                              [k \in DOMAIN o |-> SanitizationChecks[o[k]]])
             IN  /\ outcome[1] = result.status
                 /\ Cardinality(codes) <= 1 => outcome[2] = code

\* an injection attempt in an unsupported language was rejected for its
\* language
SanitizationTwoRulesWitness ==
  /\ stage.kind = "sanitization"
  /\ stage.done
  /\ stage.in.injection
  /\ stage.in.lang = "fr"
  /\ stage.in.len = MinInputLength
  /\ stage.min_length = << >>
  /\ stage.settings.min_input_length = MinInputLength
  /\ stage.result.result.status = REJECTED
  /\ stage.result.result.error_code = "LANGUAGE_NOT_SUPPORTED"

\* C26: an input of valid length gets past the language and gibberish
\* checks exactly when its detected language is "id" or "en", or it is
\* undetermined and the gibberish heuristic is false; a determined other
\* language is rejected with LANGUAGE_NOT_SUPPORTED; the heuristic only
\* counts when the language is undetermined, and then rejects with
\* VALIDATION_ERROR.  An input past both checks is judged by the injection
\* and profanity checks alone.
LanguageGate ==
  (stage.kind = "sanitization" /\ stage.done) =>
    LET self == SanitizationLayer(stage.min_length, stage.max_length,
                                  stage.settings)
        in == stage.in
        result == stage.result.result
        validLength == self._min_length <= in.len /\ in.len <= self._max_length
        pastGate == \/ in.lang \in {"id", "en"}
                    \/ in.lang = "none" /\ ~in.gibberish
        rejectedWith(code) == /\ result.status = REJECTED
                              /\ result.error_code = code
    IN  validLength =>
          /\ (in.lang \notin {"id", "en", "none"})
                => rejectedWith("LANGUAGE_NOT_SUPPORTED")
          /\ (in.lang = "none" /\ in.gibberish)
                => rejectedWith("VALIDATION_ERROR")
          /\ pastGate =>
                \/ in.injection /\ rejectedWith("INJECTION_DETECTED")
                \/ ~in.injection /\ in.profanity
                     /\ rejectedWith("VALIDATION_ERROR")
                \/ ~in.injection /\ ~in.profanity /\ result.status = PASSED

\* an English text on which the gibberish heuristic is true passed
LanguageGateWitness ==
  /\ stage.kind = "sanitization"
  /\ stage.done
  /\ stage.in.lang = "en"
  /\ stage.in.gibberish
  /\ stage.in.len = MinInputLength
  /\ stage.min_length = << >>
  /\ stage.max_length = << >>
  /\ stage.settings.min_input_length = MinInputLength
  /\ stage.result.result.status = PASSED

\* the original statement of C27: on a text with a word of either list,
\* _detect_language gives the language whose list has strictly more of the
\* text's words, and never the language that has fewer than the other.
LexicalStepIsMajorityVote ==
  (stage.kind = "detect" /\ stage.done /\ ~stage.in.short) =>
    LET id == stage.in.indonesian_matches
        en == stage.in.english_matches
    IN  /\ id > en => stage.result = "id"
        /\ en > id => stage.result = "en"
        /\ (id + en > 0 /\ stage.result = "id") => id >= en
        /\ (id + en > 0 /\ stage.result = "en") => en >= id

\* C27: the lexical step gives Indonesian the priority: on a text with at
\* least one word of the Indonesian list, _detect_language gives "id"
\* whatever the number of its words in the English list, and on a text with
\* no word of the Indonesian list and at least one of the English list it
\* gives "en"; it never gives "en" when the English list has fewer matches
\* than the Indonesian one.
LexicalStepPrefersIndonesian ==
  (stage.kind = "detect" /\ stage.done /\ ~stage.in.short) =>
    LET id == stage.in.indonesian_matches
        en == stage.in.english_matches
    IN  /\ id > 0 => stage.result = "id"
        /\ (id = 0 /\ en > 0) => stage.result = "en"
        /\ (id + en > 0 /\ stage.result = "en") => en >= id

\* a text with one Indonesian and two English indicator words came out as
\* Indonesian
LexicalStepWitness ==
  /\ stage.kind = "detect"
  /\ stage.done
  /\ ~stage.in.short
  /\ stage.in.indonesian_matches = 1
  /\ stage.in.english_matches = 2
  /\ stage.result = "id"

\* C28: whenever the retrieval stage passes, each of the retrieved verses,
\* hadith and strategies lists is ordered by ascending distance, in whatever
\* order the store returned the hits.
RetrievedListsAscending ==
  (stage.kind = "rag" /\ stage.done /\ stage.result.result.status = PASSED) =>
    /\ IsAscending(stage.retrieved.verses)
    /\ IsAscending(stage.retrieved.hadith)
    /\ IsAscending(stage.retrieved.strategies)

\* C19: a text matching a crisis pattern is rejected with SAFETY_VIOLATION,
\* the crisis flag and the hotline, whatever else it matches; without a
\* crisis match a violence match is rejected with SAFETY_VIOLATION and the
\* violence flag, and without that a prohibited-topic match with
\* SAFETY_VIOLATION and its flag; a text matching nothing passes with an
\* empty set of safety flags.
SafetyPriority ==
  (stage.kind = "safety" /\ stage.done) =>
    LET in == stage.in
        result == stage.result.result
        flags == stage.result.ctx.safety_flags
        rejected == /\ result.status = REJECTED
                    /\ result.error_code = "SAFETY_VIOLATION"
    IN  /\ in.crisis =>
              rejected /\ flags = {"CRISIS_DETECTED"} /\ stage.hotline # "none"
        /\ (~in.crisis /\ in.violence) =>
              rejected /\ flags = {"VIOLENCE_DETECTED"}
        /\ (~in.crisis /\ ~in.violence /\ in.haram) =>
              rejected /\ flags = {"HARAM_TOPIC_DETECTED"}
        /\ (~in.crisis /\ ~in.violence /\ ~in.haram) =>
              result.status = PASSED /\ flags = {}

\* a text matching all three was rejected as a crisis, with the hotline
SafetyCrisisFirstWitness ==
  /\ stage.kind = "safety"
  /\ stage.done
  /\ stage.in.crisis /\ stage.in.violence /\ stage.in.haram
  /\ stage.result.ctx.safety_flags = {"CRISIS_DETECTED"}
  /\ stage.result.result.status = REJECTED
  /\ stage.hotline # "none"

\* C20: the scope classifier passes exactly when the best similarity is at
\* least 0.45 and it is at least 0.50 or the text has a platform keyword;
\* otherwise it rejects with OUT_OF_SCOPE and leaves detected_scope unset.
ScopePassesIffSimilarEnough ==
  (stage.kind = "semantic" /\ stage.done) =>
    LET sims == {stage.in.sims[i] : i \in 1..NumScopes}
        best == CHOOSE v \in sims : \A w \in sims : v >= w
        passes == /\ best >= SemanticThreshold
                  /\ (best >= SecondaryThreshold \/ stage.in.keyword)
        result == stage.result.result
    IN  /\ ~stage.result.raised
        /\ passes <=> result.status = PASSED
        /\ passes => stage.result.ctx.detected_scope \in
                        {scope_names[i] : i \in 1..NumScopes}
        /\ ~passes => /\ result.status = REJECTED
                       /\ result.error_code = "OUT_OF_SCOPE"
                       /\ stage.result.ctx.detected_scope = "none"

\* a text with a keyword and a best similarity of exactly 0.45 passed
ScopeAtThresholdWitness ==
  /\ stage.kind = "semantic"
  /\ stage.done
  /\ stage.in.keyword
  /\ stage.in.sims[1] = SemanticThreshold
  /\ \A i \in 2..NumScopes : stage.in.sims[i] < SemanticThreshold
  /\ stage.result.result.status = PASSED
  /\ stage.result.ctx.detected_scope = scope_names[1]

\* C24: the pair recorded in semantic_scores names the lowest-index scope
\* that attains the maximum similarity, with that scope's similarity, for
\* every list of similarities, those that are all zero or negative included.
RecordedScoreIsFirstMaximum ==
  (stage.kind = "semantic" /\ stage.done /\ ~stage.result.raised) =>
    LET sims == stage.in.sims
        first == CHOOSE i \in 1..NumScopes :
                   /\ \A j \in 1..NumScopes : sims[i] >= sims[j]
                   /\ \A j \in 1..(i - 1) : sims[j] < sims[i]
    IN  stage.result.ctx.semantic_scores = <<scope_names[first], sims[first]>>

\* C15: generate of any of the three providers does not raise on an answer
\* text, parsable or not: it returns the parsed journey or, when every
\* parsing attempt failed, the minimal fallback payload.
GenerateNeverRaisesOnUnparsable ==
  (stage.kind = "generate" /\ stage.done) =>
    /\ ~stage.result.raised
    /\ stage.result.payload \in {"journey", "parse_fallback"}

\* the hit a line of the grounding text was made from
HitOf(line) == search_results[line.list][line.hit]

StoryLines == {k \in 1..Len(references) : references[k].kind = "Story/Wisdom"}

\* C29: a request whose best template is accepted for reuse is served from
\* that template, which is part of the prompt the output is generated from,
\* and a prompt made of the grounding references alone is used only when no
\* template was accepted.
AcceptedTemplateIsInPrompt ==
  journey_pc = "prompted" =>
    /\ template_used(route) => user_prompt.template = route.best_template
    /\ user_prompt.template = 0 => ~template_used(route)

\* C8: template reuse is reported exactly when there is a best template, its
\* similarity 1 - distance is at least 0.85 and the language it is written
\* in is the detected language.
TemplateUsedIffSimilarAndSameLanguage ==
  journey_pc \in {"routed", "formatted"} =>
    (template_used(route) <=>
       /\ search_results.templates # << >>
       /\ 100 - search_results.templates[1].distance
            >= TEMPLATE_HIGH_SIMILARITY_THRESHOLD
       /\ search_results.templates[1].document.language = detected_language)

\* C9: no line of the grounding text, a story appended by the fallback
\* included, comes from a reference whose distance is above 0.7.
NoDistantReferenceInGrounding ==
  journey_pc = "formatted" =>
    \A k \in 1..Len(references) :
      HitOf(references[k]).distance <= KNOWLEDGE_RELEVANCE_THRESHOLD

StoreHasStory ==
  \E i \in 1..Len(store.knowledge_references) :
    store.knowledge_references[i].metadata.category = "STORY"

\* C10: for a request that passed validation and whose collaborators did not
\* fail, when the store holds a STORY reference the grounding text has a story
\* line, and when the top-K search contributed none that line is the first
\* hit of the story-only lookup.
StoryLineWheneverStoreHasStory ==
  (journey_pc = "done" /\ validation.is_valid /\ ~journey_fault
     /\ StoreHasStory) =>
    /\ StoryLines # {}
    /\ (\A k \in StoryLines : references[k].list # "knowledge_references")
         => \E k \in StoryLines : /\ references[k].list = "stories"
                                  /\ references[k].hit = 1

\* C12: a request that passed validation, whose collaborators did not fail
\* and whose retrieval has no grounding document to return ends with the
\* error code RAG_FAILURE and without generated data.
NoGroundingEndsInRagFailure ==
  (journey_pc = "done" /\ validation.is_valid /\ ~journey_fault
     /\ _hybrid_search(store, detected_language).results.knowledge_references
          = << >>) =>
    /\ journey_response.status = "error"
    /\ journey_response.code = "RAG_FAILURE"
    /\ journey_response.data = "none"

\* C16: the error response of a request has the status of its error code:
\* 400 for VALIDATION_ERROR, INJECTION_DETECTED, LANGUAGE_NOT_SUPPORTED and
\* OUT_OF_SCOPE, 422 for SAFETY_VIOLATION, 500 for RAG_FAILURE, LLM_FAILURE,
\* PROVIDER_NOT_FOUND and INTERNAL_ERROR.
ErrorCodeHasItsStatusClass ==
  (journey_pc = "done" /\ journey_response.status = "error") =>
    LET code == journey_response.code
    IN  /\ code \in {"VALIDATION_ERROR", "INJECTION_DETECTED",
                     "LANGUAGE_NOT_SUPPORTED", "OUT_OF_SCOPE"}
             => journey_response.status_code = 400
        /\ code = "SAFETY_VIOLATION" => journey_response.status_code = 422
        /\ code \in {"RAG_FAILURE", "LLM_FAILURE", "PROVIDER_NOT_FOUND",
                     "INTERNAL_ERROR"}
             => journey_response.status_code = 500

\* C17: a request that passed sanitization, scope classification and
\* safety and none of whose collaborators failed gets the success envelope,
\* and INTERNAL_ERROR is answered only when a collaborator failed.
ValidRequestSucceeds ==
  journey_pc = "done" =>
    /\ (validation.is_valid /\ ~journey_fault)
         => journey_response.status = "success"
    /\ journey_response.code = "INTERNAL_ERROR" => journey_fault

(***************************************************************************)
(* Properties of PipelineOrchestrator.execute                              *)
(***************************************************************************)
InvokedNames == {layers[invoked[i]] : i \in 1..Len(invoked)}
CollaboratorKinds == {"semantic_validation", "rag_retrieval", "llm_inference"}

\* C1: once a stage has returned Rejected or Errored, the run invokes no
\* later stage and makes no further call to the embedding service, the store
\* or the generation backend.
ShortCircuitStopsRun ==
  /\ \A j \in 1..Len(layer_results) :
       layer_results[j].status # PASSED => Len(invoked) = j
  /\ callsAfterFail = 0

\* a run that ended on a failed stage while a stage with collaborators was
\* still to come
ShortCircuitWitness ==
  /\ pc = "done"
  /\ response.status = "error"
  /\ Len(invoked) < Len(sorted_layers)
  /\ layers[sorted_layers[Len(invoked) + 1]] \in CollaboratorKinds

\* C2: whatever the registration order, stages are invoked in non-decreasing
\* layer_order, equal orders in registration order, and no registration is
\* invoked twice in a run.
InvokedInLayerOrder ==
  \A i, j \in 1..Len(invoked) :
    i < j =>
      /\ layer_order(layers[invoked[i]]) <= layer_order(layers[invoked[j]])
      /\ layer_order(layers[invoked[i]]) = layer_order(layers[invoked[j]])
           => invoked[i] < invoked[j]
      /\ invoked[i] # invoked[j]

\* a run that invoked the second registration before the first
InvokedOutOfRegistrationOrder ==
  /\ Len(invoked) = 2
  /\ invoked[1] = 2
  /\ invoked[2] = 1
  /\ layer_order(layers[2]) < layer_order(layers[1])

AllPassed(results) == \A i \in 1..Len(results) : results[i].status = PASSED

\* C3: every run ends with exactly one envelope: success exactly when every
\* registered stage returned Passed, otherwise an error envelope naming the
\* first failed stage and carrying its code (INTERNAL_ERROR for Errored).
OneEnvelopePerRun ==
  pc = "done" =>
    /\ ~raised
    /\ response.status \in {"success", "error"}
    /\ response.status = "success" <=>
         (Len(layer_results) = Len(sorted_layers) /\ AllPassed(layer_results))
    /\ response.status = "error" =>
         \E j \in 1..Len(layer_results) :
           /\ AllPassed(SubSeq(layer_results, 1, j - 1))
           /\ layer_results[j].status # PASSED
           /\ response.failed_at_layer = layer_results[j].layer_name
           /\ response.code = layer_results[j].error_code
           /\ layer_results[j].status = ERROR => response.code = "INTERNAL_ERROR"

\* C4: the envelope's layer_timings has an entry for exactly the stages that
\* executed in the run, a Rejected or Errored stage included.
TimingsForExecutedStages ==
  (pc = "done" /\ ~raised) => response.layer_timings = InvokedNames

\* C5: with an on_layer_complete callback registered the run ends as it does
\* without one: same envelope (status, code, failing stage, payload), and an
\* exception only where the run without the callback has one.
HookCannotAlterOutcome ==
  (pc = "done" /\ noHook.done) =>
    /\ raised = noHook.raised
    /\ response.status = noHook.response.status
    /\ response.code = noHook.response.code
    /\ response.failed_at_layer = noHook.response.failed_at_layer
    /\ response.data = noHook.response.data

\* C6: when the embedding service or the store raises during a stage, that
\* stage returns Errored with INTERNAL_ERROR, execute returns the error
\* envelope naming the stage, and no exception escapes execute.
CollaboratorFaultIsErrored ==
  (pc = "done" /\ faultIn \in {"semantic_validation", "rag_retrieval"}) =>
    /\ ~raised
    /\ layer_results # << >>
    /\ layer_results[Len(layer_results)].status = ERROR
    /\ response.status = "error"
    /\ response.code = "INTERNAL_ERROR"
    /\ response.failed_at_layer = faultIn

\* C13: when the provider's generate call fails and the run returns an
\* envelope, the envelope is the error envelope with the code LLM_FAILURE.
GenerateFailureIsLlmFailure ==
  (pc = "done" /\ faultIn = "llm_inference" /\ ~raised) =>
    /\ response.status = "error"
    /\ response.code = "LLM_FAILURE"

\* C14: a success envelope of a run in which the generation stage ran, with
\* no callback set, carries a payload with at least one item: the generated
\* journey, or the one fallback item put in place of an empty output.
SuccessEnvelopeHasAnItem ==
  (pc = "done" /\ ~raised /\ response.status = "success"
     /\ on_layer_complete = "none" /\ "llm_inference" \in InvokedNames) =>
    response.data \in {"journey", "default_task"}

====
